---------------------------- MODULE Spec2Model ----------------------------
(***************************************************************************)
(* State-machine model of the classification resolution engine of          *)
(* nbar-qos-classifier: the rule engine (pkg/qos/types.go), the circuit    *)
(* breaker (pkg/ai/ratelimiter.go), the cache store (pkg/cache/cache.go),  *)
(* the provider manager (pkg/ai/provider.go), the DeepSeek provider        *)
(* (pkg/ai/deepseek.go) and the pipeline of cmd/nbar-classifier/main.go.   *)
(*                                                                         *)
(* Every component has its own specification (SpecCB, SpecRules,           *)
(* SpecCache, SpecManager) over the same variables; a specification keeps  *)
(* the variables of the other components at their constructed values.      *)
(*                                                                         *)
(* Time.  `now` is the wall clock in ticks; a tick stands for the          *)
(* nanosecond unit of time.Now().UnixNano() and of time.Duration, and      *)
(* TicksPerSecond ticks make one second (the unit of time.Now().Unix()).   *)
(* A handler reads the clock once: every time.Now() inside one handler     *)
(* returns the same reading; the clock advances only by the Tick action,   *)
(* so consecutive handlers may fall on the same clock reading.             *)
(*                                                                         *)
(* `op` records the operation the last step performed and what it          *)
(* returned to its caller.                                                 *)
(***************************************************************************)
EXTENDS Integers, Sequences, FiniteSets, TLC

VARIABLES
    now,        \* wall clock, in ticks
    op,         \* the last operation and its return value
    cb,         \* CircuitBreaker struct: maxFailures, resetTimeout, state, failures, lastFailureTime
    callPc,     \* per caller of CircuitBreaker.Call: "idle" | "running" (fn in flight)
    admitted,   \* per caller: the switch branch of allowRequest that admitted it
    streak,     \* history: failed Calls recorded in a row since the last success, Reset or construction
    predefinedClassifications,  \* Classifier: map lower-case protocol -> Class
    customRules,                \* Classifier: []*Rule, in the order AddCustomRule appended them
    defaultClass,               \* Classifier: the configured default Class
    cacheCfg,       \* Cache: maxSize, ttl, filePath (set or ""), config.Compression
    cacheEntries,   \* Cache.entries: map protocol -> Entry
    cacheStats,     \* Cache.stats: Hits, Misses, Evictions, Size, LastCleanup
    cacheFile,      \* the file at Cache.filePath
    aiCfg,          \* config.AIConfig: Provider, APIKey, Fallback, Providers
    providers,      \* Manager.providers, in the order initializeProviders built it
    rl,             \* RateLimiter: burstSize, tokens (the length of the token channel)
    ctxDone,        \* the caller's context has been cancelled
    mgr,            \* the running Manager.ClassifyProtocols call: its locals, return value, tokens taken
    rlOld,          \* RateLimiter: lengths of the token channels UpdateLimits has replaced, oldest first
    rlStats,        \* RateLimiter: requestsPerMinute, totalRequests, blockedRequests, totalWaitTime
    waiters,        \* per goroutine calling RateLimiter.Wait: pc, channel it selects on, ctx, start, ret
    try,            \* the goroutine calling RateLimiter.TryAcquire: pc, calls made, ret
    upd,            \* the running RateLimiter.UpdateLimits call (it holds rl.mutex): pc and locals
    refillAlive,    \* the refillTokens goroutine is running
    rlClosed,       \* history: RateLimiter.Close has been called
    refilled,       \* history: the refill ticker has ticked since construction
    rwmutex,        \* Cache.mutex: the goroutines holding the read lock, and the one holding the write lock
    cacheProc,      \* per goroutine calling a Cache method: pc, the method and its key
    app,            \* the running Application.classifyProtocols call: its locals and return value
    api,            \* the running DeepSeekProvider.makeAPICall: its locals, pending timer and return value
    resp            \* a DeepSeekProvider.parseResponse call: the content, the batch and what it returned

cbVars == <<cb, callPc, admitted, streak>>
ruleVars == <<predefinedClassifications, customRules, defaultClass>>
cacheVars == <<cacheCfg, cacheEntries, cacheStats, cacheFile>>
mgrVars == <<aiCfg, providers, rl, ctxDone, mgr>>
rlxVars == <<rlOld, rlStats, waiters, try, upd, refillAlive, rlClosed>>
lockVars == <<rwmutex, cacheProc>>
provVars == <<api, resp>>
vars == <<now, op, cbVars, ruleVars, cacheVars, mgrVars, rlxVars, refilled, lockVars, app, provVars>>

----------------------------------------------------------------------------
(* Bounds of the model *)

\* ticks in one second (time.Second, scaled down)
TicksPerSecond == 2
\* the clock reading at construction, in seconds since the epoch
StartSeconds == 2
\* how many ticks the clock advances in a behaviour
Horizon == 3
\* largest max_failures a breaker is constructed with
MaxMaxFailures == 2
\* largest reset_timeout a breaker is constructed with, in ticks
MaxResetTimeout == 2
\* number of concurrent callers of CircuitBreaker.Call
NumCallers == 2

\* most rules AddCustomRule is given
MaxRules == 2
\* largest rule priority offered to AddCustomRule
MaxPriority == 2
\* most entries of the predefined table
MaxPredefined == 1

\* largest max_size a cache is configured with
MaxMaxSize == 2
\* largest ttl a cache is configured with, in ticks
MaxTTL == 2
\* most Get calls in a behaviour (bounds the hit, miss and access counters)
MaxGets == 2
\* most LRU evictions in a behaviour (bounds the eviction counter)
MaxEvictions == 1

\* most fallback entries of the AI configuration
MaxFallbacks == 2
\* longest protocol list handed to Manager.ClassifyProtocols
MaxProtocols == 2
\* largest batch_size
MaxBatchSize == 2
\* largest burst size of the rate limiter
MaxBurst == 1

\* longest protocol list of the batching specification
MaxBatchProtocols == 3

\* most Application.classifyProtocols calls in a behaviour
MaxAppCalls == 2

\* goroutines inside Cache methods at once
NumCacheProcs == 2

\* largest max_backoff a provider is configured with, in seconds
MaxMaxBackoff == 5

\* most tokens of a response content
MaxContentLen == 5

\* goroutines blocked in RateLimiter.Wait at once
NumWaiters == 2
\* most RateLimiter.TryAcquire calls in a behaviour
MaxTry == 1
\* most RateLimiter.UpdateLimits calls in a behaviour
MaxUpdates == 1

StartTime == StartSeconds * TicksPerSecond
MaxTime == StartTime + Horizon

----------------------------------------------------------------------------
(* The clock *)

\* time.Time{}: the zero time, long before any reading of the clock
ZeroTime == 0

\* time.Since(t)
TimeSince(t) == now - t

\* time passes between two handlers
Tick ==
    /\ now < MaxTime
    /\ now' = now + 1
    /\ op' = [name |-> "Tick"]

ClockInit ==
    /\ now = StartTime
    /\ op = [name |-> "init"]

----------------------------------------------------------------------------
(* Rule engine: pkg/qos/types.go *)

EF == "EF"
AF41 == "AF41"
AF21 == "AF21"
CS1 == "CS1"
Other == "OTHER"

\* AllClasses()
AllClasses == {EF, AF41, AF21, CS1, Other}

\* Class.IsValid
IsValid(c) == c \in AllClasses

\* A string is a sequence of characters.  Protocol names offered to the
\* engine, in several letter casings.
Names ==
    { <<"a">>, <<"A">>, <<"b">>, <<"a", "b">>, <<"A", "b">>, <<"A", "B">> }

\* unicode.ToLower on one character
LowerChar(ch) ==
    CASE ch = "A" -> "a"
      [] ch = "B" -> "b"
      [] OTHER -> ch

\* strings.ToLower
ToLower(s) == [i \in 1..Len(s) |-> LowerChar(s[i])]

\* Rule patterns offered to AddCustomRule: literal regular expressions, the
\* empty pattern, and "[" (an unclosed bracket expression)
Patterns == { <<"a">>, <<"b">>, <<"A">>, <<>>, <<"[">> }

\* regexp.Compile succeeds: a literal compiles, an unclosed bracket does not
Compiles(pattern) == \A i \in 1..Len(pattern) : pattern[i] # "["

\* regexp.MatchString at the start of s for a pattern of literal characters
\* and ".*" (any run of characters)
RECURSIVE MatchHere(_, _)
MatchHere(pattern, s) ==
    IF pattern = <<>>
    THEN TRUE
    ELSE IF Head(pattern) = ".*"
    THEN \E k \in 0..Len(s) : MatchHere(Tail(pattern), SubSeq(s, k + 1, Len(s)))
    ELSE s # <<>> /\ Head(s) = Head(pattern) /\ MatchHere(Tail(pattern), Tail(s))

\* regexp.MatchString: the (unanchored) pattern occurs somewhere in s
MatchString(pattern, s) ==
    IF \A i \in 1..Len(pattern) : pattern[i] # ".*"
    THEN \E k \in 0..(Len(s) - Len(pattern)) :
            \A i \in 1..Len(pattern) : s[k + i] = pattern[i]
    ELSE \E k \in 0..Len(s) : MatchHere(pattern, SubSeq(s, k + 1, Len(s)))

\* Rule.Match
Match(r, protocol) ==
    IF ~r.Enabled \/ ~r.compiled
    THEN FALSE
    ELSE MatchString(r.Pattern, ToLower(protocol))

\* mutant of Validate: the priority is not looked at
ValidateAnyPriority(r) ==
    /\ r.Name # ""
    /\ r.Pattern # <<>>
    /\ IsValid(r.Class)
    /\ Compiles(r.Pattern)

\* Rule.Validate: nil (TRUE) or an error (FALSE)
Validate(r) ==
    /\ r.Name # ""
    /\ r.Pattern # <<>>
    /\ IsValid(r.Class)
    /\ ~(r.Priority < 1)
    /\ Compiles(r.Pattern)

\* confidence values, in hundredths
ConfPredefined == 100
ConfCustomRule == 90
ConfDefault == 50

\* index of the first rule of the list that matches, 0 if none: the loop of
\* ClassifyProtocol over c.customRules
FirstMatch(rules, protocol) ==
    IF \E i \in 1..Len(rules) : Match(rules[i], protocol)
    THEN CHOOSE i \in 1..Len(rules) :
            /\ Match(rules[i], protocol)
            /\ \A j \in 1..(i - 1) : ~Match(rules[j], protocol)
    ELSE 0

\* mutant of ClassifyProtocol: the predefined table is looked up with the
\* name as it was given
ClassifyProtocolExactCase(name) ==
    LET protocol == ToLower(name)
        m == FirstMatch(customRules, protocol)
    IN  IF name \in DOMAIN predefinedClassifications
        THEN [Protocol |-> protocol, Class |-> predefinedClassifications[name],
              Confidence |-> ConfPredefined, Source |-> "predefined", Timestamp |-> 0]
        ELSE IF m # 0
        THEN [Protocol |-> protocol, Class |-> customRules[m].Class,
              Confidence |-> ConfCustomRule, Source |-> "custom_rule", Timestamp |-> 0]
        ELSE [Protocol |-> protocol, Class |-> defaultClass,
              Confidence |-> ConfDefault, Source |-> "default", Timestamp |-> 0]

\* Classifier.ClassifyProtocol
ClassifyProtocol(name) ==
    LET protocol == ToLower(name)
        m == FirstMatch(customRules, protocol)
    IN  IF protocol \in DOMAIN predefinedClassifications
        THEN [Protocol |-> protocol, Class |-> predefinedClassifications[protocol],
              Confidence |-> ConfPredefined, Source |-> "predefined", Timestamp |-> 0]
        ELSE IF m # 0
        THEN [Protocol |-> protocol, Class |-> customRules[m].Class,
              Confidence |-> ConfCustomRule, Source |-> "custom_rule", Timestamp |-> 0]
        ELSE [Protocol |-> protocol, Class |-> defaultClass,
              Confidence |-> ConfDefault, Source |-> "default", Timestamp |-> 0]

\* the handler ClassifyProtocol, called with a protocol name
DoClassifyProtocol(name) ==
    /\ op' = [name |-> "ClassifyProtocol", protocol |-> name,
              result |-> ClassifyProtocol(name)]
    /\ UNCHANGED <<ruleVars, now>>

\* Classifier.AddPredefinedClassification
AddPredefinedClassification(name, class) ==
    /\ \/ ToLower(name) \in DOMAIN predefinedClassifications
       \/ Cardinality(DOMAIN predefinedClassifications) < MaxPredefined
    /\ predefinedClassifications' =
          [k \in DOMAIN predefinedClassifications \cup {ToLower(name)} |->
              IF k = ToLower(name) THEN class ELSE predefinedClassifications[k]]
    /\ op' = [name |-> "AddPredefinedClassification"]
    /\ UNCHANGED <<customRules, defaultClass, now>>

\* Classifier.AddCustomRule: Validate, CompileRegex, append
AddCustomRule(rule) ==
    /\ Len(customRules) < MaxRules
    /\ IF ~Validate(rule) \/ ~Compiles(rule.Pattern)
       THEN /\ op' = [name |-> "AddCustomRule", rule |-> rule, ret |-> "err"]
            /\ UNCHANGED customRules
       ELSE /\ customRules' = Append(customRules, [rule EXCEPT !.compiled = TRUE])
            /\ op' = [name |-> "AddCustomRule", rule |-> rule, ret |-> "nil"]
    /\ UNCHANGED <<predefinedClassifications, defaultClass, now>>

\* the rules a caller may hand to AddCustomRule
RuleInputs ==
    { r \in [Name : {"rule", ""}, Pattern : Patterns, Class : {EF, AF41, "BOGUS"},
             Priority : 0..MaxPriority, Enabled : BOOLEAN, compiled : {FALSE}] :
        \* well-formed rules and rules with one thing wrong
        Cardinality({ d \in {"name", "pattern", "class", "priority"} :
                        \/ d = "name" /\ r.Name = ""
                        \/ d = "pattern" /\ r.Pattern \in {<<>>, <<"[">>}
                        \/ d = "class" /\ r.Class = "BOGUS"
                        \/ d = "priority" /\ r.Priority = 0 }) <= 1 }

\* NewClassifier(defaultClass, confidenceThreshold)
RulesInitWith(defaults) ==
    /\ predefinedClassifications = << >>
    /\ customRules = << >>
    /\ defaultClass \in defaults

RulesIdle == UNCHANGED ruleVars

----------------------------------------------------------------------------
(* Cache store: pkg/cache/cache.go *)

\* time.Now().UnixNano(): the clock reading in ticks
UnixNano(t) == t

\* time.Now().Unix(): the clock reading in whole seconds
Unix(t) == t \div TicksPerSecond

\* int64(d.Seconds()): a duration in whole seconds
Seconds(d) == d \div TicksPerSecond

\* protocols used as cache keys
CacheKeys == { <<"a">>, <<"b">>, <<"a", "b">> }

\* the zero qos.Classification{}
NoClassification ==
    [Protocol |-> << >>, Class |-> "", Confidence |-> 0, Source |-> "", Timestamp |-> 0]

\* classifications a caller stores under key k
CacheValues(k) ==
    { [Protocol |-> k, Class |-> c, Confidence |-> ConfCustomRule,
       Source |-> "custom_rule", Timestamp |-> 0] : c \in {EF, AF41} }

\* Entry.IsExpired with the clock reading t
ExpiredAt(e, t) ==
    IF e.TTL <= 0
    THEN FALSE
    ELSE UnixNano(t) >= e.Timestamp + e.TTL

\* Entry.IsExpired
IsExpired(e) == ExpiredAt(e, now)

\* mutant of Touch: the access count is left as it is
TouchKeepsCount(e) == [e EXCEPT !.LastAccessed = UnixNano(now)]

\* mutant of Touch: the access renews the entry's lifetime
TouchRenews(e) ==
    [e EXCEPT !.LastAccessed = UnixNano(now), !.AccessCount = e.AccessCount + 1,
              !.Timestamp = UnixNano(now)]

\* Entry.Touch
Touch(e) == [e EXCEPT !.LastAccessed = UnixNano(now), !.AccessCount = e.AccessCount + 1]

\* the entry Set and SetBatch create
NewEntry(classification) ==
    [Classification |-> classification, Timestamp |-> UnixNano(now),
     TTL |-> cacheCfg.ttl, AccessCount |-> 1, LastAccessed |-> UnixNano(now)]

\* a map without key k: delete(m, k)
MapDelete(m, k) == [x \in (DOMAIN m) \ {k} |-> m[x]]

\* a map with m[k] = v
MapPut(m, k, v) == [x \in (DOMAIN m) \cup {k} |-> IF x = k THEN v ELSE m[x]]

\* Cache.evictLRU, the scan: the keys oldestProtocol can end as.  The scan
\* starts from oldestTime = now and moves to an entry only if its
\* LastAccessed is strictly smaller, so it ends on an entry with the
\* smallest LastAccessed (the first one met in map order, which is
\* arbitrary) or, when no entry was last accessed before now, on none.
EvictVictims(entries) ==
    {k \in DOMAIN entries :
        /\ entries[k].LastAccessed < UnixNano(now)
        /\ \A j \in DOMAIN entries : entries[k].LastAccessed <= entries[j].LastAccessed}

\* Cache.Get
CacheGet(k) ==
    /\ cacheStats.Hits + cacheStats.Misses < MaxGets
    /\ IF k \notin DOMAIN cacheEntries
       THEN /\ cacheStats' = [cacheStats EXCEPT !.Misses = @ + 1]
            /\ UNCHANGED cacheEntries
            /\ op' = [name |-> "Get", key |-> k, value |-> NoClassification, found |-> FALSE]
       ELSE IF IsExpired(cacheEntries[k])
       THEN /\ cacheEntries' = MapDelete(cacheEntries, k)
            /\ cacheStats' = [cacheStats EXCEPT !.Size = @ - 1, !.Misses = @ + 1]
            /\ op' = [name |-> "Get", key |-> k, value |-> NoClassification, found |-> FALSE]
       ELSE /\ cacheEntries' = [cacheEntries EXCEPT ![k] = Touch(@)]
            /\ cacheStats' = [cacheStats EXCEPT !.Hits = @ + 1]
            /\ op' = [name |-> "Get", key |-> k,
                      value |-> cacheEntries[k].Classification, found |-> TRUE]
    /\ UNCHANGED <<cacheCfg, cacheFile, now>>

\* Cache.Get as its caller sees it, from the entries and statistics st: the
\* entries and statistics it leaves, the classification and the found flag
GetOne(st, k) ==
    IF k \notin DOMAIN st.entries
    THEN [st |-> [st EXCEPT !.stats.Misses = @ + 1],
          value |-> NoClassification, found |-> FALSE]
    ELSE IF IsExpired(st.entries[k])
    THEN [st |-> [entries |-> MapDelete(st.entries, k),
                  stats |-> [st.stats EXCEPT !.Size = @ - 1, !.Misses = @ + 1]],
          value |-> NoClassification, found |-> FALSE]
    ELSE [st |-> [entries |-> [st.entries EXCEPT ![k] = Touch(@)],
                  stats |-> [st.stats EXCEPT !.Hits = @ + 1]],
          value |-> st.entries[k].Classification, found |-> TRUE]

\* Cache.Set, with evictLRU
CacheSet(k, classification) ==
    LET exists == k \in DOMAIN cacheEntries
        evict == ~exists /\ Cardinality(DOMAIN cacheEntries) >= cacheCfg.maxSize
        victims == IF evict THEN EvictVictims(cacheEntries) ELSE {}
    IN  /\ evict => cacheStats.Evictions < MaxEvictions
        /\ \E v \in IF victims = {} THEN {"none"} ELSE victims :
              LET kept == IF victims = {} THEN cacheEntries ELSE MapDelete(cacheEntries, v)
              IN  /\ cacheEntries' = MapPut(kept, k, NewEntry(classification))
                  /\ cacheStats' =
                        [cacheStats EXCEPT
                            !.Evictions = IF victims = {} THEN @ ELSE @ + 1,
                            !.Size = IF exists THEN @ ELSE @ + 1]
        /\ op' = [name |-> "Set", key |-> k]
        /\ UNCHANGED <<cacheCfg, cacheFile, now>>

\* mutant of SetOne: the size check is made for existing keys as well
SetOneAlwaysChecks(st, k, classification) ==
    LET exists == k \in DOMAIN st.entries
        evict == Cardinality(DOMAIN st.entries) >= cacheCfg.maxSize
        victims == IF evict THEN EvictVictims(st.entries) ELSE {}
    IN  { [entries |-> MapPut(IF v \in victims THEN MapDelete(st.entries, v) ELSE st.entries,
                              k, NewEntry(classification)),
           stats |-> [st.stats EXCEPT
                         !.Evictions = IF v \in victims THEN @ + 1 ELSE @,
                         !.Size = IF exists THEN @ ELSE @ + 1]] :
          v \in IF victims = {} THEN {"none"} ELSE victims }

\* Cache.SetBatch, one turn of its loop, from the entries and statistics st:
\* the entries and statistics it can leave (evictLRU picks among the oldest)
SetOne(st, k, classification) ==
    LET exists == k \in DOMAIN st.entries
        evict == ~exists /\ Cardinality(DOMAIN st.entries) >= cacheCfg.maxSize
        victims == IF evict THEN EvictVictims(st.entries) ELSE {}
    IN  { [entries |-> MapPut(IF v \in victims THEN MapDelete(st.entries, v) ELSE st.entries,
                              k, NewEntry(classification)),
           stats |-> [st.stats EXCEPT
                         !.Evictions = IF v \in victims THEN @ + 1 ELSE @,
                         !.Size = IF exists THEN @ ELSE @ + 1]] :
          v \in IF victims = {} THEN {"none"} ELSE victims }

\* Cache.SetBatch, the loop over the map: the keys keys of batch are still to
\* come, in an order the map iteration chooses
RECURSIVE SetBatchResults(_, _, _)
SetBatchResults(st, batch, keys) ==
    IF keys = {}
    THEN {st}
    ELSE UNION { UNION { SetBatchResults(st2, batch, keys \ {k}) :
                            st2 \in SetOne(st, k, batch[k]) } :
                    k \in keys }

\* the maps handed to SetBatch
Batches ==
    UNION { {b \in [ks -> UNION {CacheValues(k) : k \in ks}] :
                \A k \in ks : b[k] \in CacheValues(k)} :
            ks \in (SUBSET CacheKeys) \ {{}} }

\* Cache.SetBatch
CacheSetBatch(batch) ==
    /\ cacheStats.Evictions < MaxEvictions
    /\ \E st \in SetBatchResults([entries |-> cacheEntries, stats |-> cacheStats],
                                 batch, DOMAIN batch) :
          /\ cacheEntries' = st.entries
          /\ cacheStats' = st.stats
    /\ op' = [name |-> "SetBatch", batch |-> batch,
              existed |-> (DOMAIN batch) \cap (DOMAIN cacheEntries)]
    /\ UNCHANGED <<cacheCfg, cacheFile, now>>

\* Cache.Delete
CacheDelete(k) ==
    /\ IF k \in DOMAIN cacheEntries
       THEN /\ cacheEntries' = MapDelete(cacheEntries, k)
            /\ cacheStats' = [cacheStats EXCEPT !.Size = @ - 1]
       ELSE UNCHANGED <<cacheEntries, cacheStats>>
    /\ op' = [name |-> "Delete", key |-> k]
    /\ UNCHANGED <<cacheCfg, cacheFile, now>>

\* Cache.Clear
CacheClear ==
    /\ cacheEntries' = << >>
    /\ cacheStats' = [cacheStats EXCEPT !.Size = 0]
    /\ op' = [name |-> "Clear"]
    /\ UNCHANGED <<cacheCfg, cacheFile, now>>

\* mutant of CacheCleanup: the scan removes every entry that carries a ttl
CacheCleanupDropsTimed ==
    /\ cacheEntries' = [k \in {x \in DOMAIN cacheEntries : cacheEntries[x].TTL <= 0}
                          |-> cacheEntries[k]]
    /\ cacheStats' = [cacheStats EXCEPT
                         !.Size = Cardinality(DOMAIN cacheEntries'),
                         !.LastCleanup = Unix(now)]
    /\ op' = [name |-> "Cleanup",
              removed |-> Cardinality(DOMAIN cacheEntries) - Cardinality(DOMAIN cacheEntries')]
    /\ UNCHANGED <<cacheCfg, cacheFile, now>>

\* Cache.Cleanup
CacheCleanup ==
    /\ cacheEntries' = [k \in {x \in DOMAIN cacheEntries : ~IsExpired(cacheEntries[x])}
                          |-> cacheEntries[k]]
    /\ cacheStats' = [cacheStats EXCEPT
                         !.Size = Cardinality(DOMAIN cacheEntries'),
                         !.LastCleanup = Unix(now)]
    /\ op' = [name |-> "Cleanup",
              removed |-> Cardinality(DOMAIN cacheEntries) - Cardinality(DOMAIN cacheEntries')]
    /\ UNCHANGED <<cacheCfg, cacheFile, now>>

\* mutant of CacheExists: an expired entry is removed, as Get does
CacheExistsPrunes(k) ==
    /\ IF k \in DOMAIN cacheEntries /\ IsExpired(cacheEntries[k])
       THEN /\ cacheEntries' = MapDelete(cacheEntries, k)
            /\ cacheStats' = [cacheStats EXCEPT !.Size = @ - 1]
       ELSE UNCHANGED <<cacheEntries, cacheStats>>
    /\ op' = [name |-> "Exists", key |-> k,
              ret |-> (k \in DOMAIN cacheEntries /\ ~IsExpired(cacheEntries[k]))]
    /\ UNCHANGED <<cacheCfg, cacheFile, now>>

\* Cache.Exists, under the read lock
CacheExists(k) ==
    /\ op' = [name |-> "Exists", key |-> k,
              ret |-> IF k \notin DOMAIN cacheEntries
                      THEN FALSE
                      ELSE ~IsExpired(cacheEntries[k])]
    /\ UNCHANGED <<cacheCfg, cacheEntries, cacheStats, cacheFile, now>>

\* the files found at filePath: none, or a JSON document, plain or gzipped,
\* holding the structured format, the legacy map protocol -> class string,
\* or something that is neither
NoFile == [exists |-> FALSE]
LegacyFiles ==
    { [exists |-> TRUE, gzip |-> z, format |-> "legacy", data |-> m] :
        z \in BOOLEAN,
        m \in { (<<"a">> :> "EF"), (<<"a">> :> "AF41" @@ <<"b">> :> "BULK") } }
GarbageFile == [exists |-> TRUE, gzip |-> FALSE, format |-> "garbage", data |-> << >>]

\* Load, first attempt: the reader the structured decode gets can read the
\* document (with Compression a failed gzip.NewReader falls back to the
\* plain file; without it a gzipped file is read as it is)
FirstReadable(f) == cacheCfg.compression \/ ~f.gzip

\* Load, fallback: gzip.NewReader must succeed when Compression is set
FallbackReadable(f) == IF cacheCfg.compression THEN f.gzip ELSE ~f.gzip

\* Load, the entry built from one pair of the legacy map
LegacyEntry(protocol, classStr) ==
    [Classification |-> [Protocol |-> protocol, Class |-> classStr, Confidence |-> 0,
                         Source |-> "cache", Timestamp |-> 0],
     Timestamp |-> Unix(now), TTL |-> Seconds(cacheCfg.ttl),
     AccessCount |-> 0, LastAccessed |-> Unix(now)]

\* mutant of EncodeClassification: the confidence is never written
EncodeClassificationNoConfidence(c) ==
    [f \in {"protocol", "class"}
            \cup (IF c.Source # "" THEN {"source"} ELSE {})
            \cup (IF c.Timestamp # 0 THEN {"timestamp"} ELSE {}) |->
        CASE f = "protocol" -> c.Protocol
          [] f = "class" -> c.Class
          [] f = "source" -> c.Source
          [] OTHER -> c.Timestamp]

\* json.Encoder on a qos.Classification: confidence, source and timestamp
\* carry omitempty
EncodeClassification(c) ==
    [f \in {"protocol", "class"}
            \cup (IF c.Confidence # 0 THEN {"confidence"} ELSE {})
            \cup (IF c.Source # "" THEN {"source"} ELSE {})
            \cup (IF c.Timestamp # 0 THEN {"timestamp"} ELSE {}) |->
        CASE f = "protocol" -> c.Protocol
          [] f = "class" -> c.Class
          [] f = "confidence" -> c.Confidence
          [] f = "source" -> c.Source
          [] OTHER -> c.Timestamp]

\* json.Encoder on an Entry
EncodeEntry(e) ==
    [f \in {"classification", "timestamp", "ttl", "access_count", "last_accessed"} |->
        CASE f = "classification" -> EncodeClassification(e.Classification)
          [] f = "timestamp" -> e.Timestamp
          [] f = "ttl" -> e.TTL
          [] f = "access_count" -> e.AccessCount
          [] OTHER -> e.LastAccessed]

\* json.Decoder into a qos.Classification: a missing member leaves the zero value
DecodeClassification(j) ==
    [Protocol |-> IF "protocol" \in DOMAIN j THEN j["protocol"] ELSE << >>,
     Class |-> IF "class" \in DOMAIN j THEN j["class"] ELSE "",
     Confidence |-> IF "confidence" \in DOMAIN j THEN j["confidence"] ELSE 0,
     Source |-> IF "source" \in DOMAIN j THEN j["source"] ELSE "",
     Timestamp |-> IF "timestamp" \in DOMAIN j THEN j["timestamp"] ELSE 0]

\* json.Decoder into an Entry
DecodeEntry(j) ==
    [Classification |-> IF "classification" \in DOMAIN j
                        THEN DecodeClassification(j["classification"])
                        ELSE NoClassification,
     Timestamp |-> IF "timestamp" \in DOMAIN j THEN j["timestamp"] ELSE 0,
     TTL |-> IF "ttl" \in DOMAIN j THEN j["ttl"] ELSE 0,
     AccessCount |-> IF "access_count" \in DOMAIN j THEN j["access_count"] ELSE 0,
     LastAccessed |-> IF "last_accessed" \in DOMAIN j THEN j["last_accessed"] ELSE 0]

\* what os.Open and os.Create can do
OpenOutcomes == {"ok", "failed"}

\* what writing the document can do once the file is created
EncodeOutcomes == {"ok", "failed"}

\* mutant of CacheLoad: a load that fails leaves an empty cache
CacheLoadClears ==
    /\ \E open \in OpenOutcomes :
          IF ~cacheCfg.filePath \/ ~cacheFile.exists
          THEN /\ UNCHANGED <<cacheEntries, cacheStats>>
               /\ op' = [name |-> "Load", prior |-> Cardinality(DOMAIN cacheEntries), ret |-> "nil", format |-> "none"]
          ELSE /\ cacheEntries' = << >>
               /\ cacheStats' = [cacheStats EXCEPT !.Size = 0]
               /\ op' = [name |-> "Load", prior |-> Cardinality(DOMAIN cacheEntries), ret |-> "err", format |-> "none"]
    /\ UNCHANGED <<cacheCfg, cacheFile, now>>

\* Cache.Load
CacheLoad ==
    /\ \E open \in OpenOutcomes :
          IF ~cacheCfg.filePath \/ ~cacheFile.exists
          THEN /\ UNCHANGED <<cacheEntries, cacheStats>>
               /\ op' = [name |-> "Load", prior |-> Cardinality(DOMAIN cacheEntries), ret |-> "nil", format |-> "none"]
          ELSE IF open = "failed"
          THEN /\ UNCHANGED <<cacheEntries, cacheStats>>
               /\ op' = [name |-> "Load", prior |-> Cardinality(DOMAIN cacheEntries), ret |-> "err", format |-> "none"]
          ELSE IF FirstReadable(cacheFile) /\ cacheFile.format = "entries"
          THEN /\ cacheEntries' = [k \in DOMAIN cacheFile.data |->
                                      DecodeEntry(cacheFile.data[k])]
               /\ cacheStats' = [cacheStats EXCEPT !.Size = Cardinality(DOMAIN cacheFile.data)]
               /\ op' = [name |-> "Load", prior |-> Cardinality(DOMAIN cacheEntries), ret |-> "nil", format |-> "entries"]
          ELSE IF FallbackReadable(cacheFile) /\ cacheFile.format = "legacy"
          THEN /\ cacheEntries' = [k \in DOMAIN cacheFile.data |->
                                      LegacyEntry(k, cacheFile.data[k])]
               /\ cacheStats' = [cacheStats EXCEPT !.Size = Cardinality(DOMAIN cacheFile.data)]
               /\ op' = [name |-> "Load", prior |-> Cardinality(DOMAIN cacheEntries), ret |-> "nil", format |-> "legacy"]
          ELSE /\ UNCHANGED <<cacheEntries, cacheStats>>
               /\ op' = [name |-> "Load", prior |-> Cardinality(DOMAIN cacheEntries), ret |-> "err", format |-> "none"]
    /\ UNCHANGED <<cacheCfg, cacheFile, now>>

\* Cache.Save, with no backup path configured: os.Create, then the JSON
\* document of c.entries through a gzip writer if Compression is set
CacheSave ==
    /\ IF ~cacheCfg.filePath
       THEN /\ UNCHANGED cacheFile
            /\ op' = [name |-> "Save", ret |-> "nil", io |-> "none"]
       ELSE \E create \in OpenOutcomes, encode \in EncodeOutcomes :
               IF create = "failed"
               THEN /\ UNCHANGED cacheFile
                    /\ op' = [name |-> "Save", ret |-> "err", io |-> "create"]
               ELSE IF encode = "failed"
               THEN /\ cacheFile' = [exists |-> TRUE, gzip |-> cacheCfg.compression,
                                     format |-> "garbage", data |-> << >>]
                    /\ op' = [name |-> "Save", ret |-> "err", io |-> "encode"]
               ELSE /\ cacheFile' = [exists |-> TRUE, gzip |-> cacheCfg.compression,
                                     format |-> "entries",
                                     data |-> [k \in DOMAIN cacheEntries |->
                                                  EncodeEntry(cacheEntries[k])]]
                    /\ op' = [name |-> "Save", ret |-> "nil", io |-> "ok"]
    /\ UNCHANGED <<cacheCfg, cacheEntries, cacheStats, now>>

\* the process starts again: cache.New with the same configuration, the file
\* as the last process left it
CacheNew ==
    /\ cacheEntries' = << >>
    /\ cacheStats' = [Hits |-> 0, Misses |-> 0, Evictions |-> 0, Size |-> 0, LastCleanup |-> 0]
    /\ op' = [name |-> "New"]
    /\ UNCHANGED <<cacheCfg, cacheFile, now>>

\* Cache.Size, under the read lock: it stores len(c.entries) in c.stats.Size
CacheSize ==
    /\ cacheStats' = [cacheStats EXCEPT !.Size = Cardinality(DOMAIN cacheEntries)]
    /\ op' = [name |-> "Size", ret |-> Cardinality(DOMAIN cacheEntries)]
    /\ UNCHANGED <<cacheCfg, cacheEntries, cacheFile, now>>

\* Cache.GetStats, under the read lock: a copy of c.stats with Size replaced
CacheGetStats ==
    /\ op' = [name |-> "GetStats",
              ret |-> [cacheStats EXCEPT !.Size = Cardinality(DOMAIN cacheEntries)]]
    /\ UNCHANGED <<cacheCfg, cacheEntries, cacheStats, cacheFile, now>>

\* Cache.HitRate, under the read lock: hits / (hits + misses), 0 for 0 / 0
\* (the quotient is kept as its numerator and denominator)
CacheHitRate ==
    /\ op' = [name |-> "HitRate", hits |-> cacheStats.Hits,
              total |-> cacheStats.Hits + cacheStats.Misses]
    /\ UNCHANGED <<cacheCfg, cacheEntries, cacheStats, cacheFile, now>>

\* Cache.GetAll, under the read lock: the classifications of the entries
\* that have not expired
CacheGetAll ==
    /\ op' = [name |-> "GetAll",
              ret |-> [k \in {x \in DOMAIN cacheEntries : ~IsExpired(cacheEntries[x])}
                          |-> cacheEntries[k].Classification]]
    /\ UNCHANGED <<cacheCfg, cacheEntries, cacheStats, cacheFile, now>>

\* goroutines calling Cache methods at the same time
CacheProcs == 1..NumCacheProcs

\* the methods that take c.mutex.Lock() and those that take c.mutex.RLock()
LockMethods == {"Get", "Set", "Delete", "Clear", "Cleanup"}
RLockMethods == {"Exists", "Size", "GetStats", "HitRate", "GetAll", "Save"}

\* the methods that take a protocol argument
KeyedMethods == {"Get", "Set", "Delete", "Exists"}

\* the fields of the Cache struct a method's body assigns to (c.entries, the
\* entries it points to, c.stats)
FieldsWritten(method) ==
    CASE method = "Get" -> {"entries", "stats"}
      [] method = "Set" -> {"entries", "stats"}
      [] method = "Delete" -> {"entries", "stats"}
      [] method = "Clear" -> {"entries", "stats"}
      [] method = "Cleanup" -> {"entries", "stats"}
      [] method = "Size" -> {"stats"}
      [] OTHER -> {}

\* the fields of the Cache struct a method's body reads
FieldsRead(method) ==
    CASE method \in {"Exists", "GetAll", "Save", "Size"} -> {"entries"}
      [] method = "HitRate" -> {"stats"}
      [] OTHER -> {"entries", "stats"}

\* a goroutine outside every Cache method
ProcIdle == [pc |-> "idle", method |-> "none", key |-> << >>]

\* sync.RWMutex, unlocked
LockInit ==
    /\ rwmutex = [readers |-> {}, writer |-> 0]
    /\ cacheProc = [p \in CacheProcs |-> ProcIdle]

\* goroutine p calls a Cache method
LockCall(p, method, k) ==
    /\ cacheProc[p].pc = "idle"
    /\ cacheProc' = [cacheProc EXCEPT ![p] = [pc |-> "locking", method |-> method, key |-> k]]
    /\ op' = [name |-> "call", proc |-> p, method |-> method]
    /\ UNCHANGED <<rwmutex, cacheVars, now>>

\* c.mutex.Lock() returns once no goroutine holds the lock; c.mutex.RLock()
\* returns once no goroutine holds the write lock
LockAcquire(p) ==
    /\ cacheProc[p].pc = "locking"
    /\ IF cacheProc[p].method \in LockMethods
       THEN /\ rwmutex.readers = {} /\ rwmutex.writer = 0
            /\ rwmutex' = [rwmutex EXCEPT !.writer = p]
       ELSE /\ rwmutex.writer = 0
            /\ rwmutex' = [rwmutex EXCEPT !.readers = @ \cup {p}]
    /\ cacheProc' = [cacheProc EXCEPT ![p].pc = "body"]
    /\ op' = [name |-> "lock", proc |-> p]
    /\ UNCHANGED <<cacheVars, now>>

\* the body of the method goroutine p is in, between lock and unlock
LockBody(p) ==
    LET method == cacheProc[p].method
        k == cacheProc[p].key
    IN  /\ cacheProc[p].pc = "body"
        /\ CASE method = "Get" -> CacheGet(k)
             [] method = "Set" -> \E v \in CacheValues(k) : CacheSet(k, v)
             [] method = "Delete" -> CacheDelete(k)
             [] method = "Clear" -> CacheClear
             [] method = "Cleanup" -> CacheCleanup
             [] method = "Exists" -> CacheExists(k)
             [] method = "Size" -> CacheSize
             [] method = "GetStats" -> CacheGetStats
             [] method = "HitRate" -> CacheHitRate
             [] method = "GetAll" -> CacheGetAll
             [] method = "Save" -> CacheSave
        /\ cacheProc' = [cacheProc EXCEPT ![p].pc = "unlocking"]
        /\ UNCHANGED rwmutex

\* the deferred c.mutex.Unlock() or c.mutex.RUnlock()
LockRelease(p) ==
    /\ cacheProc[p].pc = "unlocking"
    /\ rwmutex' = [readers |-> rwmutex.readers \ {p},
                   writer |-> IF rwmutex.writer = p THEN 0 ELSE rwmutex.writer]
    /\ cacheProc' = [cacheProc EXCEPT ![p] = ProcIdle]
    /\ op' = [name |-> "unlock", proc |-> p]
    /\ UNCHANGED <<cacheVars, now>>

\* cache.New(cfg), with the file the process finds at cfg.FilePath
CacheInitWith(sizes, ttls, compressions, files) ==
    /\ cacheCfg \in [maxSize : sizes, ttl : ttls, filePath : {TRUE},
                     compression : compressions]
    /\ cacheEntries = << >>
    /\ cacheStats = [Hits |-> 0, Misses |-> 0, Evictions |-> 0, Size |-> 0, LastCleanup |-> 0]
    /\ LockInit
    /\ cacheFile \in files

CacheIdle == UNCHANGED cacheVars

----------------------------------------------------------------------------
(* Rate limiter: pkg/ai/ratelimiter.go *)

\* the goroutines that call Wait
Waiters == 1..NumWaiters

\* burst sizes of the limiter: up to one less than the number of waiters
BurstSizes == 1..(NumWaiters - 1)

\* burst sizes handed to UpdateLimits
NewBurstSizes == 1..NumWaiters

\* requests_per_minute values
RpmValues == {60}

Min(a, b) == IF a < b THEN a ELSE b

\* the channel rl.tokens points to: channels are numbered in the order
\* make(chan struct{}, burstSize) created them
CurrentChan == Len(rlOld) + 1

\* len(ch) of channel number ch
ChanLen(ch) == IF ch = CurrentChan THEN rl.tokens ELSE rlOld[ch]

\* rl.mutex is free: UpdateLimits is the one holder that keeps it over
\* several steps
MutexFree == upd.pc = "idle"

\* a goroutine that has not called Wait
WaiterIdle == [pc |-> "idle", chan |-> 0, cancelled |-> FALSE, start |-> 0, ret |-> "none"]

\* NewRateLimiter, the fields beside the bucket; the refill goroutine starts
RLXInit ==
    /\ rlOld = << >>
    /\ rlStats \in [requestsPerMinute : RpmValues, totalRequests : {0},
                    blockedRequests : {0}, totalWaitTime : {0}]
    /\ waiters = [w \in Waiters |-> WaiterIdle]
    /\ try = [pc |-> "idle", calls |-> 0, ret |-> "none"]
    /\ upd = [pc |-> "idle", calls |-> 0, burstSize |-> 0, existingTokens |-> 0, drained |-> 0]
    /\ refillAlive = TRUE
    /\ rlClosed = FALSE
    /\ refilled = FALSE

\* Wait is called: start := time.Now(), and the select evaluates rl.tokens,
\* the channel the goroutine receives from until it returns
WaitCall(w) ==
    /\ waiters[w].pc = "idle"
    /\ waiters' = [waiters EXCEPT ![w].pc = "select", ![w].chan = CurrentChan,
                                  ![w].start = now]
    /\ op' = [name |-> "Wait.call", waiter |-> w]
    /\ UNCHANGED <<rl, rlOld, rlStats, try, upd, refillAlive, rlClosed, now>>

\* the caller's context is cancelled
WaitCtxCancel(w) ==
    /\ waiters[w].pc \in {"idle", "select"}
    /\ ~waiters[w].cancelled
    /\ waiters' = [waiters EXCEPT ![w].cancelled = TRUE]
    /\ op' = [name |-> "Wait.cancel", waiter |-> w]
    /\ UNCHANGED <<rl, rlOld, rlStats, try, upd, refillAlive, rlClosed, now>>

\* mutant of WaitTake: Wait returns nil without receiving a token
WaitTakeFree(w) ==
    /\ waiters[w].pc = "select"
    /\ waiters' = [waiters EXCEPT ![w].pc = "defer", ![w].ret = "nil"]
    /\ op' = [name |-> "Wait.token", waiter |-> w]
    /\ UNCHANGED <<rl, rlOld, rlStats, try, upd, refillAlive, rlClosed, now>>

\* Wait, case <-rl.tokens: a token is received from the goroutine's channel
WaitTake(w) ==
    /\ waiters[w].pc = "select"
    /\ ChanLen(waiters[w].chan) > 0
    /\ IF waiters[w].chan = CurrentChan
       THEN rl' = [rl EXCEPT !.tokens = @ - 1] /\ UNCHANGED rlOld
       ELSE rlOld' = [rlOld EXCEPT ![waiters[w].chan] = @ - 1] /\ UNCHANGED rl
    /\ waiters' = [waiters EXCEPT ![w].pc = "defer", ![w].ret = "nil"]
    /\ op' = [name |-> "Wait.token", waiter |-> w]
    /\ UNCHANGED <<rlStats, try, upd, refillAlive, rlClosed, now>>

\* mutant of WaitDone: the cancelled Wait swallows a token that is ready
WaitDoneTakes(w) ==
    /\ waiters[w].pc = "select"
    /\ waiters[w].cancelled
    /\ rl' = [rl EXCEPT !.tokens = IF @ > 0 THEN @ - 1 ELSE @]
    /\ waiters' = [waiters EXCEPT ![w].pc = "blocked"]
    /\ op' = [name |-> "Wait.done", waiter |-> w]
    /\ UNCHANGED <<rlOld, rlStats, try, upd, refillAlive, rlClosed, now>>

\* Wait, case <-ctx.Done(): the goroutine goes on to count the blocked request
WaitDone(w) ==
    /\ waiters[w].pc = "select"
    /\ waiters[w].cancelled
    /\ waiters' = [waiters EXCEPT ![w].pc = "blocked"]
    /\ op' = [name |-> "Wait.done", waiter |-> w]
    /\ UNCHANGED <<rl, rlOld, rlStats, try, upd, refillAlive, rlClosed, now>>

\* Wait, case <-ctx.Done(): blockedRequests++ under the mutex, return ctx.Err()
WaitBlocked(w) ==
    /\ waiters[w].pc = "blocked"
    /\ MutexFree
    /\ rlStats' = [rlStats EXCEPT !.blockedRequests = @ + 1]
    /\ waiters' = [waiters EXCEPT ![w].pc = "defer", ![w].ret = "ctx.Err"]
    /\ op' = [name |-> "Wait.blocked", waiter |-> w]
    /\ UNCHANGED <<rl, rlOld, try, upd, refillAlive, rlClosed, now>>

\* Wait, the deferred function: totalRequests++ and the wait time under the
\* mutex; Wait returns
WaitReturn(w) ==
    /\ waiters[w].pc = "defer"
    /\ MutexFree
    /\ rlStats' = [rlStats EXCEPT !.totalRequests = @ + 1,
                                  !.totalWaitTime = @ + TimeSince(waiters[w].start)]
    /\ waiters' = [waiters EXCEPT ![w].pc = "returned"]
    /\ op' = [name |-> "Wait", waiter |-> w, ret |-> waiters[w].ret]
    /\ UNCHANGED <<rl, rlOld, try, upd, refillAlive, rlClosed, now>>

\* TryAcquire, the select: a token is received from rl.tokens if it holds one
TrySelect ==
    /\ try.pc = "idle"
    /\ try.calls < MaxTry
    /\ IF rl.tokens > 0
       THEN /\ rl' = [rl EXCEPT !.tokens = @ - 1]
            /\ try' = [pc |-> "count", calls |-> try.calls + 1, ret |-> "true"]
       ELSE /\ UNCHANGED rl
            /\ try' = [pc |-> "count", calls |-> try.calls + 1, ret |-> "false"]
    /\ op' = [name |-> "TryAcquire.select", ret |-> try'.ret]
    /\ UNCHANGED <<rlOld, rlStats, waiters, upd, refillAlive, rlClosed, now>>

\* TryAcquire, the counter of the branch taken, under the mutex; it returns
TryCount ==
    /\ try.pc = "count"
    /\ MutexFree
    /\ rlStats' = IF try.ret = "true"
                  THEN [rlStats EXCEPT !.totalRequests = @ + 1]
                  ELSE [rlStats EXCEPT !.blockedRequests = @ + 1]
    /\ try' = [try EXCEPT !.pc = "idle"]
    /\ op' = [name |-> "TryAcquire", ret |-> try.ret]
    /\ UNCHANGED <<rl, rlOld, waiters, upd, refillAlive, rlClosed, now>>

\* UpdateLimits takes the mutex and sets requestsPerMinute; with a new burst
\* size it reads existingTokens := len(rl.tokens) and starts to drain
UpdStart(requestsPerMinute, burstSize) ==
    /\ MutexFree
    /\ upd.calls < MaxUpdates
    /\ rlStats' = [rlStats EXCEPT !.requestsPerMinute = requestsPerMinute]
    /\ IF rl.burstSize # burstSize
       THEN upd' = [pc |-> "drain", calls |-> upd.calls + 1, burstSize |-> burstSize,
                    existingTokens |-> rl.tokens, drained |-> 0]
       ELSE upd' = [upd EXCEPT !.calls = @ + 1]
    /\ op' = [name |-> "UpdateLimits.start"]
    /\ UNCHANGED <<rl, rlOld, waiters, try, refillAlive, rlClosed, now>>

\* UpdateLimits, the drain loop: one blocking receive from the old channel
UpdDrain ==
    /\ upd.pc = "drain"
    /\ upd.drained < upd.existingTokens
    /\ rl.tokens > 0
    /\ rl' = [rl EXCEPT !.tokens = @ - 1]
    /\ upd' = [upd EXCEPT !.drained = @ + 1]
    /\ op' = [name |-> "UpdateLimits.drain"]
    /\ UNCHANGED <<rlOld, rlStats, waiters, try, refillAlive, rlClosed, now>>

\* UpdateLimits, after the drain loop: the new channel gets
\* min(existingTokens, burstSize) tokens and replaces the old one, which keeps
\* whatever it holds; the mutex is released.  burstSize is written under the
\* mutex and read under it only, so the model writes it in this same step.
UpdSwap ==
    /\ upd.pc = "drain"
    /\ upd.drained = upd.existingTokens
    /\ rlOld' = Append(rlOld, rl.tokens)
    /\ rl' = [burstSize |-> upd.burstSize,
              tokens |-> Min(upd.existingTokens, upd.burstSize)]
    /\ upd' = [upd EXCEPT !.pc = "idle"]
    /\ op' = [name |-> "UpdateLimits"]
    /\ UNCHANGED <<rlStats, waiters, try, refillAlive, rlClosed, now>>

\* RateLimiter.Close, called by Manager.Close: the body is empty
rlClose ==
    /\ ~rlClosed
    /\ rlClosed' = TRUE
    /\ op' = [name |-> "Close"]
    /\ UNCHANGED <<rl, rlOld, rlStats, waiters, try, upd, refillAlive, now>>

----------------------------------------------------------------------------
(* Provider manager: pkg/ai/provider.go *)

\* the provider names createProvider knows
SupportedProviders == {"deepseek", "openai", "claude", "ollama"}

\* the providers whose ClassifyProtocols is a stub that always returns an error
StubProviders == {"openai", "claude", "ollama"}

\* Manager.initializeProviders, the loop over config.Fallback: ps with the
\* enabled, configured and creatable fallbacks appended in configuration order
RECURSIVE AppendFallbacks(_, _, _)
AppendFallbacks(ps, fallbacks, cfg) ==
    IF fallbacks = << >>
    THEN ps
    ELSE LET fb == Head(fallbacks)
         IN  IF \/ ~fb.Enabled
                \/ fb.Provider \notin DOMAIN cfg.Providers
                \/ fb.Provider \notin SupportedProviders
             THEN AppendFallbacks(ps, Tail(fallbacks), cfg)
             ELSE AppendFallbacks(
                     Append(ps, [name |-> fb.Provider,
                                 apiKey |-> cfg.Providers[fb.Provider].APIKey]),
                     Tail(fallbacks), cfg)

\* the API key the primary provider ends up with: New<X>Provider takes
\* cfg.APIKey, and the stubs override it with a non-empty provider-specific key
PrimaryKey(cfg) ==
    IF /\ cfg.Provider \in StubProviders
       /\ cfg.Provider \in DOMAIN cfg.Providers
       /\ cfg.Providers[cfg.Provider].APIKey # ""
    THEN cfg.Providers[cfg.Provider].APIKey
    ELSE cfg.APIKey

\* Manager.initializeProviders: the primary first, then the fallbacks
InitializeProviders(cfg) ==
    AppendFallbacks(<<[name |-> cfg.Provider, apiKey |-> PrimaryKey(cfg)]>>,
                    cfg.Fallback, cfg)

\* mutant of IsAvailable: every provider reports itself available
IsAvailableAlways(p) == p.name \in SupportedProviders

\* Provider.IsAvailable
IsAvailable(p) == p.apiKey # ""

\* protocol names handed to the AI layer, and one a provider may invent
AiNames == { <<"a">>, <<"b">> }
ExtraName == <<"x">>

\* confidence values of AI answers, in hundredths
ConfJSON == 80

\* the protocols of a batch, as a set
Range(seq) == {seq[i] : i \in 1..Len(seq)}

\* what a provider's ClassifyProtocols(ctx, batch) can return: (map, error).
\* The stubs return a default entry for every protocol together with an
\* error; deepseek returns an error and no map, or no error and the entries
\* parsed from the model's answer, which may miss protocols of the batch and
\* may name others.
ProviderOutcomes(p, batch) ==
    IF p.name \in StubProviders
    THEN { [results |-> [k \in Range(batch) |->
                            [Protocol |-> k, Class |-> CS1, Confidence |-> ConfDefault,
                             Source |-> "ai", Timestamp |-> 0]],
            err |-> "not_implemented"] }
    ELSE { [results |-> << >>, err |-> "api_call_failed"] }
         \cup { [results |-> [k \in ks |->
                                [Protocol |-> k, Class |-> c, Confidence |-> ConfJSON,
                                 Source |-> "ai", Timestamp |-> 0]],
                 err |-> "nil"] :
                  ks \in SUBSET (Range(batch) \cup {ExtraName}), c \in {EF, AF41} }

\* mutant of Stamp: the entries keep the timestamp the provider gave them
StampStale(results) ==
    [k \in DOMAIN results |-> [results[k] EXCEPT !.Source = "ai"]]

\* Manager.classifyBatch on success: every entry stamped source = ai and the
\* current time
Stamp(results) ==
    [k \in DOMAIN results |-> [results[k] EXCEPT !.Source = "ai", !.Timestamp = Unix(now)]]

\* for protocol, classification := range b { a[protocol] = classification }
Merge(a, b) == [k \in (DOMAIN a) \cup (DOMAIN b) |-> IF k \in DOMAIN b THEN b[k] ELSE a[k]]

\* the locals of a ClassifyProtocols call that has not started
MgrIdle ==
    [pc |-> "idle", protocols |-> << >>, batchSize |-> 1, i |-> 0, j |-> 0,
     results |-> << >>, lastErr |-> 0, invoked |-> << >>, waits |-> 0,
     ret |-> [isNil |-> TRUE, results |-> << >>, err |-> "none"]]

\* mutant of Batch: the batch is cut after its first protocol
BatchOfOne(m) == SubSeq(m.protocols, m.i + 1, m.i + 1)

\* protocols[i:end] of the loop of ClassifyProtocols (i counts from 0)
Batch(m) ==
    LET end == IF m.i + m.batchSize > Len(m.protocols)
               THEN Len(m.protocols) ELSE m.i + m.batchSize
    IN  SubSeq(m.protocols, m.i + 1, end)

\* Manager.ClassifyProtocols is called: an empty list returns an empty map
\* at once, otherwise the loop starts at its first batch
MgrStart(protocols, batchSize) ==
    /\ mgr.pc \in {"idle", "done"}
    /\ IF Len(protocols) = 0
       THEN mgr' = [MgrIdle EXCEPT !.pc = "done", !.batchSize = batchSize,
                        !.ret = [isNil |-> FALSE, results |-> << >>, err |-> "nil"]]
       ELSE mgr' = [MgrIdle EXCEPT !.pc = "wait", !.protocols = protocols,
                        !.batchSize = batchSize]
    /\ op' = [name |-> "ClassifyProtocols"]
    /\ UNCHANGED <<aiCfg, providers, rl, ctxDone, now>>

\* the loop head: rateLimiter.Wait(ctx) takes a token, and classifyBatch
\* starts at the first provider
MgrWaitToken ==
    /\ mgr.pc = "wait"
    /\ rl.tokens > 0
    /\ rl' = [rl EXCEPT !.tokens = @ - 1]
    /\ mgr' = [mgr EXCEPT !.pc = "batch", !.j = 1, !.lastErr = 0, !.invoked = << >>,
                  !.waits = @ + 1]
    /\ op' = [name |-> "Wait", ret |-> "nil"]
    /\ UNCHANGED <<aiCfg, providers, ctxDone, now>>

\* the loop head: rateLimiter.Wait(ctx) returns ctx.Err(), and the call
\* returns (nil, rate limit error)
MgrWaitCancelled ==
    /\ mgr.pc = "wait"
    /\ ctxDone
    /\ mgr' = [mgr EXCEPT !.pc = "done",
                  !.ret = [isNil |-> TRUE, results |-> << >>, err |-> "rate_limit"]]
    /\ op' = [name |-> "Wait", ret |-> "cancelled"]
    /\ UNCHANGED <<aiCfg, providers, rl, ctxDone, now>>

\* classifyBatch, one turn of the loop over m.providers: a provider that is
\* not available is skipped
MgrSkip ==
    /\ mgr.pc = "batch"
    /\ mgr.j <= Len(providers)
    /\ ~IsAvailable(providers[mgr.j])
    /\ mgr' = [mgr EXCEPT !.j = @ + 1]
    /\ op' = [name |-> "skip", provider |-> mgr.j]
    /\ UNCHANGED <<aiCfg, providers, rl, ctxDone, now>>

\* classifyBatch, one turn of the loop: an available provider is called; on
\* success its stamped entries are the batch's result, ClassifyProtocols
\* merges them and goes on to the next batch or returns; on error the loop
\* goes on to the next provider
MgrInvoke ==
    /\ mgr.pc = "batch"
    /\ mgr.j <= Len(providers)
    /\ IsAvailable(providers[mgr.j])
    /\ \E out \in ProviderOutcomes(providers[mgr.j], Batch(mgr)) :
          /\ op' = [name |-> "provider", provider |-> mgr.j, batch |-> Batch(mgr),
                    results |-> out.results, err |-> out.err]
          /\ IF out.err = "nil"
             THEN LET merged == Merge(mgr.results, Stamp(out.results))
                      next == mgr.i + mgr.batchSize
                  IN  mgr' = IF next < Len(mgr.protocols)
                             THEN [mgr EXCEPT !.pc = "wait", !.i = next,
                                       !.results = merged,
                                       !.invoked = Append(@, mgr.j)]
                             ELSE [mgr EXCEPT !.pc = "done", !.i = next,
                                       !.results = merged,
                                       !.invoked = Append(@, mgr.j),
                                       !.ret = [isNil |-> FALSE, results |-> merged,
                                                err |-> "nil"]]
             ELSE mgr' = [mgr EXCEPT !.j = @ + 1, !.lastErr = mgr.j,
                              !.invoked = Append(@, mgr.j)]
    /\ UNCHANGED <<aiCfg, providers, rl, ctxDone, now>>

\* classifyBatch has run out of providers: it returns (nil, all AI providers
\* failed, last error), and ClassifyProtocols returns (nil, failed to
\* classify batch)
MgrAllFailed ==
    /\ mgr.pc = "batch"
    /\ mgr.j > Len(providers)
    /\ mgr' = [mgr EXCEPT !.pc = "done",
                  !.ret = [isNil |-> TRUE, results |-> << >>,
                           err |-> "all_providers_failed"]]
    /\ op' = [name |-> "classifyBatch", ret |-> "all_providers_failed"]
    /\ UNCHANGED <<aiCfg, providers, rl, ctxDone, now>>

\* mutant of Refill: the tick adds its token to a full bucket as well
RefillOverfull ==
    /\ refillAlive
    /\ rl' = [rl EXCEPT !.tokens = IF @ <= rl.burstSize THEN @ + 1 ELSE @]
    /\ refilled' = TRUE
    /\ op' = [name |-> "refill"]
    /\ UNCHANGED <<aiCfg, providers, ctxDone, mgr, now>>

\* mutant of Refill: the ticker ticks and adds no token
RefillAddsNothing ==
    /\ refillAlive
    /\ rl' = rl
    /\ refilled' = TRUE
    /\ op' = [name |-> "refill"]
    /\ UNCHANGED <<aiCfg, providers, ctxDone, mgr, now>>

\* RateLimiter.refillTokens, one tick of its ticker: a token is added unless
\* the bucket is full
Refill ==
    /\ refillAlive
    /\ rl' = [rl EXCEPT !.tokens = IF @ < rl.burstSize THEN @ + 1 ELSE @]
    /\ refilled' = TRUE
    /\ op' = [name |-> "refill"]
    /\ UNCHANGED <<aiCfg, providers, ctxDone, mgr, now>>

\* the caller cancels the context (or its deadline passes)
Cancel ==
    /\ ~ctxDone
    /\ ctxDone' = TRUE
    /\ op' = [name |-> "cancel"]
    /\ UNCHANGED <<aiCfg, providers, rl, mgr, now>>

\* the AI configurations a Manager is built from
AiConfigs ==
    [Provider : {"deepseek", "openai"},
     APIKey : {"", "key"},
     Fallback : UNION { [1..n -> [Provider : {"deepseek", "claude", "gemini"},
                                  Enabled : BOOLEAN]] : n \in 0..MaxFallbacks },
     Providers : { ("deepseek" :> [APIKey |-> "key2"] @@ "claude" :> [APIKey |-> "key3"]),
                   ("claude" :> [APIKey |-> ""] @@ "gemini" :> [APIKey |-> "key4"]) }]

\* ai.NewManager(cfg): NewRateLimiter fills the bucket, initializeProviders
\* builds the provider list
MgrInitWith(cfgs, bursts) ==
    /\ aiCfg \in cfgs
    /\ providers = InitializeProviders(aiCfg)
    /\ rl \in {[burstSize |-> b, tokens |-> b] : b \in bursts}
    /\ ctxDone = FALSE
    /\ mgr = MgrIdle
    /\ RLXInit

----------------------------------------------------------------------------
(* DeepSeek provider, the retry loop: pkg/ai/deepseek.go *)

\* makeAPICall: maxRetries := 3
maxRetries == 3

\* makeAPICall: baseDelay := 2 * time.Second, in ticks
baseDelay == 2 * TicksPerSecond

\* the clock reading at which the retry specification stops the clock: room
\* for both backoff waits of a call
ApiMaxTime == StartTime + 3 * baseDelay + 1

\* math.Pow(2, n) for the n >= 0 the loop uses
RECURSIVE Pow2(_)
Pow2(n) == IF n <= 0 THEN 1 ELSE 2 * Pow2(n - 1)

\* mutant of BackoffDelay: the delay is not capped
BackoffDelayUncapped(attempt, maxBackoff) ==
    baseDelay * Pow2(attempt - 1)

\* makeAPICall, the delay before attempt `attempt` (attempts count from 0,
\* the delay is computed for attempt > 0): baseDelay * 2^(attempt-1), capped
\* at p.rateLimit.MaxBackoff
BackoffDelay(attempt, maxBackoff) ==
    LET delay == baseDelay * Pow2(attempt - 1)
    IN  IF delay > maxBackoff THEN maxBackoff ELSE delay

\* the errors an attempt can end with while the context is live
AttemptErrors == {"http_request_failed", "api_error"}

\* the locals of a makeAPICall that has not started, for a provider whose
\* rateLimit.MaxBackoff is mb ticks
ApiIdle(mb) ==
    [pc |-> "idle", maxBackoff |-> mb, attempt |-> 0, tries |-> 0,
     lastErr |-> "none", delay |-> 0, waitStart |-> 0,
     ret |-> [isNil |-> TRUE, err |-> "none", last |-> "none"]]

\* parseResponse has not been called
RespIdle ==
    [pc |-> "idle", content |-> << >>, protocols |-> << >>, results |-> << >>,
     strategy |-> "none", err |-> "none"]

\* the provider of a specification that does not exercise it
ProvOff ==
    /\ api = ApiIdle(baseDelay)
    /\ resp = RespIdle

\* makeAPICall is called: attempt 0 starts at once (its singleAPICall is in
\* flight), whatever the state of ctx
ApiCall ==
    /\ api.pc \in {"idle", "done"}
    /\ api' = [ApiIdle(api.maxBackoff) EXCEPT !.pc = "attempt", !.tries = 1]
    /\ op' = [name |-> "makeAPICall"]
    /\ UNCHANGED <<resp, ctxDone, now>>

\* singleAPICall returns a response: makeAPICall returns it.  The request
\* carries ctx (http.NewRequestWithContext), so an attempt in flight when
\* ctx is cancelled ends with the context's error, not with a response.
ApiAttemptOK ==
    /\ api.pc = "attempt"
    /\ ~ctxDone
    /\ api' = [api EXCEPT !.pc = "done",
                  !.ret = [isNil |-> FALSE, err |-> "nil", last |-> api.lastErr]]
    /\ op' = [name |-> "singleAPICall", attempt |-> api.attempt, err |-> "nil"]
    /\ UNCHANGED <<resp, ctxDone, now>>

\* singleAPICall returns an error: lastErr = err; after the last attempt the
\* loop ends and makeAPICall returns "all retry attempts failed" wrapping
\* lastErr, otherwise the next turn computes its delay and enters its select
ApiAttemptFail ==
    /\ api.pc = "attempt"
    /\ \E err \in IF ctxDone THEN {"context_canceled"} ELSE AttemptErrors :
          /\ api' = IF api.attempt + 1 < maxRetries
                    THEN [api EXCEPT !.pc = "backoff", !.attempt = @ + 1,
                              !.lastErr = err,
                              !.delay = BackoffDelay(api.attempt + 1, api.maxBackoff),
                              !.waitStart = now]
                    ELSE [api EXCEPT !.pc = "done", !.attempt = @ + 1,
                              !.lastErr = err,
                              !.ret = [isNil |-> TRUE, err |-> "all_retry_attempts_failed",
                                       last |-> err]]
          /\ op' = [name |-> "singleAPICall", attempt |-> api.attempt, err |-> err]
    /\ UNCHANGED <<resp, ctxDone, now>>

\* the select of a retry turn, case <-ctx.Done(): return nil, ctx.Err()
ApiBackoffCancelled ==
    /\ api.pc = "backoff"
    /\ ctxDone
    /\ api' = [api EXCEPT !.pc = "done",
                  !.ret = [isNil |-> TRUE, err |-> "context_canceled",
                           last |-> api.lastErr]]
    /\ op' = [name |-> "backoff", ret |-> "context_canceled",
              waited |-> TimeSince(api.waitStart)]
    /\ UNCHANGED <<resp, ctxDone, now>>

\* mutant of ApiBackoffExpire: the wait ends with the timer whether or not
\* ctx was cancelled
ApiBackoffSleepsOut ==
    /\ api.pc = "backoff"
    /\ TimeSince(api.waitStart) >= api.delay
    /\ api' = [api EXCEPT !.pc = "attempt", !.tries = @ + 1]
    /\ op' = [name |-> "backoff", ret |-> "timer",
              waited |-> TimeSince(api.waitStart)]
    /\ UNCHANGED <<resp, ctxDone, now>>

\* the select of a retry turn, case <-time.After(delay): the next
\* singleAPICall starts.  The goroutine is parked on both channels and the
\* first one to become ready wakes it, so the timer case is taken only if
\* the timer fired before any cancellation.
ApiBackoffExpire ==
    /\ api.pc = "backoff"
    /\ ~ctxDone
    /\ TimeSince(api.waitStart) >= api.delay
    /\ api' = [api EXCEPT !.pc = "attempt", !.tries = @ + 1]
    /\ op' = [name |-> "backoff", ret |-> "timer",
              waited |-> TimeSince(api.waitStart)]
    /\ UNCHANGED <<resp, ctxDone, now>>

\* time passes; a timer that is due fires before the clock moves on
ApiTick ==
    /\ now < ApiMaxTime
    /\ ~(api.pc = "backoff" /\ ~ctxDone /\ TimeSince(api.waitStart) >= api.delay)
    /\ now' = now + 1
    /\ op' = [name |-> "Tick"]
    /\ UNCHANGED <<api, resp, ctxDone>>

----------------------------------------------------------------------------
(* DeepSeek provider, response parsing: pkg/ai/deepseek.go *)

(* The content of a response is a sequence of tokens: the brackets and the
   comma of a JSON array, the line break, the two math-display delimiters,
   JSON objects taken whole, and words of plain text.  A protocol name is
   taken to occur in the text only where a token carries it. *)

\* the JSON objects of the contents: {"protocol":"a","class":"EF"} and
\* {"protocol":"b","class":"BULK","confidence":0.9}
ObjTokens == {"{a:EF}", "{b:BULK:90}"}

\* the tokens a content is made of
Tokens == {"[", "]", ",", "\n", "$begin", "$end", "a", "AF41"} \cup ObjTokens

\* what encoding/json decodes an object into: a member that is absent leaves
\* the zero value of its field
ObjOf(tok) ==
    IF tok = "{a:EF}"
    THEN [Protocol |-> <<"a">>, Class |-> EF, Confidence |-> 0,
          Source |-> "", Timestamp |-> 0]
    ELSE [Protocol |-> <<"b">>, Class |-> "BULK", Confidence |-> 90,
          Source |-> "", Timestamp |-> 0]

\* strings.Contains(strings.ToLower(tok), strings.ToLower(protocol))
Mentions(tok, protocol) ==
    \/ protocol = <<"a">> /\ tok \in {"a", "{a:EF}"}
    \/ protocol = <<"b">> /\ tok = "{b:BULK:90}"

\* strings.Contains(strings.ToUpper(tok), word) for the class words
HasWord(tok, word) ==
    \/ word = "EF" /\ tok = "{a:EF}"
    \/ word = "AF41" /\ tok = "AF41"

\* json.Unmarshal of the text into []qos.Classification: an opening
\* bracket, objects separated by commas (white space allowed around them),
\* a closing bracket
Unmarshal(text) ==
    LET n == Len(text)
        inner == IF n >= 2 THEN SelectSeq(SubSeq(text, 2, n - 1), LAMBDA t : t # "\n")
                 ELSE << >>
        wellFormed ==
            /\ n >= 2
            /\ text[1] = "["
            /\ text[n] = "]"
            /\ \/ inner = << >>
               \/ /\ Len(inner) % 2 = 1
                  /\ \A i \in 1..Len(inner) :
                        IF i % 2 = 1 THEN inner[i] \in ObjTokens ELSE inner[i] = ","
    IN  IF wellFormed
        THEN [ok |-> TRUE,
              classifications |-> [i \in 1..((Len(inner) + 1) \div 2) |->
                                      ObjOf(inner[2 * i - 1])]]
        ELSE [ok |-> FALSE, classifications |-> << >>]

\* regexp `\[.*\]`, FindString: from the first opening bracket that has a
\* closing bracket after it on its line, to the last closing bracket of
\* that line ("" when there is none)
FindArray(content) ==
    LET closes(i) == {j \in (i + 1)..Len(content) :
                         /\ content[j] = "]"
                         /\ \A k \in i..j : content[k] # "\n"}
        starts == {i \in 1..Len(content) : content[i] = "[" /\ closes(i) # {}}
    IN  IF starts = {}
        THEN << >>
        ELSE LET i == CHOOSE x \in starts : \A y \in starts : x <= y
                 j == CHOOSE x \in closes(i) : \A y \in closes(i) : y <= x
             IN  SubSeq(content, i, j)

\* parseJSONResponse
parseJSONResponse(content) ==
    LET jsonMatch == FindArray(content)
    IN  IF jsonMatch = << >>
        THEN [ok |-> FALSE, classifications |-> << >>]
        ELSE Unmarshal(jsonMatch)

\* regexp `(\s*\{.*?\}\s*,?)+` matched against the whole of s from index i:
\* each group is white space, an object (or a stretch of one line from an
\* opening to a closing brace), white space, and a comma or none
RECURSIVE Groups(_, _)
Groups(s, i) ==
    LET n == Len(s)
        rest == {k \in i..n : s[k] # "\n"}
    IN  /\ rest # {}
        /\ LET b == CHOOSE x \in rest : \A y \in rest : x <= y
           IN  /\ s[b] \in ObjTokens
               /\ \E e \in b..n :
                     /\ s[e] \in ObjTokens
                     /\ \A k \in b..e : s[k] # "\n"
                     /\ \E p \in (e + 1)..(n + 1) :
                           /\ \A k \in (e + 1)..(p - 1) : s[k] = "\n"
                           /\ \E q \in {p} \cup (IF p <= n /\ s[p] = "," THEN {p + 1} ELSE {}) :
                                 q = n + 1 \/ Groups(s, q)

\* regexp `\$begin:math:display\$(\s*\{.*?\}\s*,?)+\$end:math:display\$`,
\* FindString with the delimiters trimmed: what stands between the first
\* opening delimiter that starts a match and the closing delimiter the
\* match ends on; found is false when nothing matches
FindMath(content) ==
    LET ends(i) == {j \in (i + 1)..Len(content) :
                       /\ content[j] = "$end"
                       /\ Groups(SubSeq(content, i + 1, j - 1), 1)}
        starts == {i \in 1..Len(content) : content[i] = "$begin" /\ ends(i) # {}}
    IN  IF starts = {}
        THEN [found |-> FALSE, jsonPart |-> << >>]
        ELSE LET i == CHOOSE x \in starts : \A y \in starts : x <= y
                 j == CHOOSE x \in ends(i) : \A y \in ends(i) : x <= y
             IN  [found |-> TRUE, jsonPart |-> SubSeq(content, i + 1, j - 1)]

\* parseWithRegex
parseWithRegex(content) ==
    LET mathMatch == FindMath(content)
    IN  IF mathMatch.found
        THEN Unmarshal(<<"[">> \o mathMatch.jsonPart \o <<"]">>)
        ELSE [ok |-> FALSE, classifications |-> << >>]

\* confidence of an entry the line scan recovers, in hundredths
ConfManual == 70

\* strings.Split(content, "\n")
RECURSIVE Split(_)
Split(content) ==
    LET breaks == {i \in 1..Len(content) : content[i] = "\n"}
    IN  IF breaks = {}
        THEN <<content>>
        ELSE LET i == CHOOSE x \in breaks : \A y \in breaks : x <= y
             IN  <<SubSeq(content, 1, i - 1)>>
                 \o Split(SubSeq(content, i + 1, Len(content)))

\* parseManually, the body of the loop over the lines: the first protocol of
\* the batch that the line contains gets the class the line names
ScanLine(results, line, protocols) ==
    LET contains(protocol) == \E i \in 1..Len(line) : Mentions(line[i], protocol)
        has(word) == \E i \in 1..Len(line) : HasWord(line[i], word)
        hits == {i \in 1..Len(protocols) : contains(protocols[i])}
    IN  IF hits = {}
        THEN results
        ELSE LET protocol == protocols[CHOOSE x \in hits : \A y \in hits : x <= y]
                 class == IF has("EF") THEN EF
                          ELSE IF has("AF41") THEN AF41
                          ELSE IF has("AF21") THEN AF21
                          ELSE CS1
             IN  MapPut(results, protocol,
                        [Protocol |-> protocol, Class |-> class,
                         Confidence |-> ConfManual, Source |-> "ai", Timestamp |-> 0])

\* parseManually
RECURSIVE ScanLines(_, _, _)
ScanLines(results, lines, protocols) ==
    IF lines = << >>
    THEN results
    ELSE ScanLines(ScanLine(results, Head(lines), protocols), Tail(lines), protocols)

parseManually(content, protocols) ==
    ScanLines(<< >>, Split(content), protocols)

\* mapToClassifications: a class that is not valid becomes CS1, a
\* confidence of 0 becomes 0.8, the source becomes ai; a later entry of a
\* protocol replaces an earlier one
RECURSIVE mapToClassifications(_)
mapToClassifications(classifications) ==
    IF classifications = << >>
    THEN << >>
    ELSE LET n == Len(classifications)
             c == classifications[n]
         IN  MapPut(mapToClassifications(SubSeq(classifications, 1, n - 1)),
                    c.Protocol,
                    [c EXCEPT !.Class = IF IsValid(@) THEN @ ELSE CS1,
                              !.Confidence = IF @ = 0 THEN ConfJSON ELSE @,
                              !.Source = "ai"])

\* mutant of parseResponse: the line scan is tried before the JSON strategies
parseResponseScansFirst(content, protocols) ==
    LET manual == parseManually(content, protocols)
        json == parseJSONResponse(content)
        regex == parseWithRegex(content)
    IN  IF manual # << >>
        THEN [results |-> manual, err |-> "nil", strategy |-> "manual"]
        ELSE IF json.ok
        THEN [results |-> mapToClassifications(json.classifications), err |-> "nil",
              strategy |-> "json"]
        ELSE IF regex.ok
        THEN [results |-> mapToClassifications(regex.classifications), err |-> "nil",
              strategy |-> "regex"]
        ELSE [results |-> manual, err |-> "nil", strategy |-> "manual"]

\* parseResponse, for a response that has a choice (singleAPICall returns
\* an error for one that has none)
parseResponse(content, protocols) ==
    LET json == parseJSONResponse(content)
        regex == parseWithRegex(content)
    IN  IF json.ok
        THEN [results |-> mapToClassifications(json.classifications), err |-> "nil",
              strategy |-> "json"]
        ELSE IF regex.ok
        THEN [results |-> mapToClassifications(regex.classifications), err |-> "nil",
              strategy |-> "regex"]
        ELSE [results |-> parseManually(content, protocols), err |-> "nil",
              strategy |-> "manual"]

\* the contents and the batches parseResponse is given
Contents == UNION { [1..n -> Tokens] : n \in 0..MaxContentLen }
ParseBatches == { <<<<"a">>>>, <<<<"a">>, <<"b">>>>, <<<<"b">>, <<"a">>>> }

\* DeepSeekProvider.ClassifyProtocols after makeAPICall: parseResponse, and
\* the return of its map (or of its error)
ParseResponse ==
    /\ resp.pc = "received"
    /\ LET r == parseResponse(resp.content, resp.protocols)
       IN  /\ resp' = [resp EXCEPT !.pc = "parsed", !.results = r.results,
                           !.strategy = r.strategy, !.err = r.err]
           /\ op' = [name |-> "parseResponse", err |-> r.err]
    /\ UNCHANGED <<api, ctxDone, now>>

----------------------------------------------------------------------------
(* Application: cmd/nbar-classifier/main.go *)

\* the protocol names of the application's runs, and a rule pattern
Sip == <<"s", "i", "p">>
VoiceApp == <<"v", "o", "i", "c", "e", "-", "a", "p", "p">>
UnknownXyz == <<"u", "n", "k", "n", "o", "w", "n", "-", "x", "y", "z">>
VoicePattern == <<".*", "v", "o", "i", "c", "e", ".*">>

\* the protocol lists a run is given: the three names in every order, and
\* every shorter list of them
AppProtocolLists ==
    { ps \in UNION { [1..n -> {Sip, VoiceApp, UnknownXyz}] : n \in 0..3 } :
        \A i, j \in 1..Len(ps) : i # j => ps[i] # ps[j] }

\* the locals of a classifyProtocols call that has not started
AppIdle ==
    [pc |-> "idle", calls |-> 0, protocols |-> << >>, batchSize |-> 1, n |-> 0,
     coldCache |-> FALSE, results |-> << >>, needAIClassification |-> << >>,
     ret |-> << >>]

\* NewApplication: no classifyProtocols call is running
AppInit == app = AppIdle

\* the cache as Get and Set transform it
CacheState == [entries |-> cacheEntries, stats |-> cacheStats]

\* classifyProtocols is called (config.App.BatchSize is batchSize)
AppStart(protocols, batchSize) ==
    /\ app.pc \in {"idle", "done"}
    /\ app.calls < MaxAppCalls
    /\ app' = [AppIdle EXCEPT !.pc = "loop", !.calls = app.calls + 1,
                  !.protocols = protocols, !.batchSize = batchSize, !.n = 1,
                  !.coldCache = (cacheEntries = << >>)]
    /\ op' = [name |-> "classifyProtocols"]
    /\ UNCHANGED <<cacheVars, ruleVars, mgrVars, now>>

\* mutant of AppLoop: a protocol a rule resolved goes to the AI list as well
AppLoopAsksAI ==
    /\ app.pc = "loop"
    /\ app.n <= Len(app.protocols)
    /\ LET protocol == app.protocols[app.n]
           g == GetOne(CacheState, protocol)
           classification == ClassifyProtocol(protocol)
       IN  IF g.found
           THEN /\ app' = [app EXCEPT !.n = @ + 1,
                              !.results = MapPut(@, protocol, g.value)]
                /\ cacheEntries' = g.st.entries
                /\ cacheStats' = g.st.stats
           ELSE /\ app' = [app EXCEPT !.n = @ + 1,
                              !.needAIClassification = Append(@, protocol)]
                /\ cacheEntries' = g.st.entries
                /\ cacheStats' = g.st.stats
    /\ op' = [name |-> "classifyProtocols.loop"]
    /\ UNCHANGED <<cacheCfg, cacheFile, ruleVars, mgrVars, now>>

\* one turn of the first loop: cache.Get, then ClassifyProtocol; a result
\* that is not the default is stored with cache.Set, a default one sends the
\* protocol to the AI list
AppLoop ==
    /\ app.pc = "loop"
    /\ app.n <= Len(app.protocols)
    /\ LET protocol == app.protocols[app.n]
           g == GetOne(CacheState, protocol)
           classification == ClassifyProtocol(protocol)
       IN  IF g.found
           THEN /\ app' = [app EXCEPT !.n = @ + 1,
                              !.results = MapPut(@, protocol, g.value)]
                /\ cacheEntries' = g.st.entries
                /\ cacheStats' = g.st.stats
           ELSE IF classification.Source # "default"
           THEN /\ app' = [app EXCEPT !.n = @ + 1,
                              !.results = MapPut(@, protocol, classification)]
                /\ \E st \in SetOne(g.st, protocol, classification) :
                      /\ cacheEntries' = st.entries
                      /\ cacheStats' = st.stats
           ELSE /\ app' = [app EXCEPT !.n = @ + 1,
                              !.needAIClassification = Append(@, protocol)]
                /\ cacheEntries' = g.st.entries
                /\ cacheStats' = g.st.stats
    /\ op' = [name |-> "classifyProtocols.loop"]
    /\ UNCHANGED <<cacheCfg, cacheFile, ruleVars, mgrVars, now>>

\* after the loop with nothing left for the AI: return results
AppReturn ==
    /\ app.pc = "loop"
    /\ app.n > Len(app.protocols)
    /\ Len(app.needAIClassification) = 0
    /\ app' = [app EXCEPT !.pc = "done", !.ret = app.results]
    /\ op' = [name |-> "classifyProtocols.return", err |-> "nil"]
    /\ UNCHANGED <<cacheVars, ruleVars, mgrVars, now>>

\* after the loop: aiManager.ClassifyProtocols(ctx, needAIClassification,
\* BatchSize) is called
AppCallAI ==
    /\ app.pc = "loop"
    /\ app.n > Len(app.protocols)
    /\ Len(app.needAIClassification) > 0
    /\ MgrStart(app.needAIClassification, app.batchSize)
    /\ app' = [app EXCEPT !.pc = "ai"]
    /\ UNCHANGED <<cacheVars, ruleVars>>

\* mutant of SetDefaults: the protocols left without a result stay without
SetDefaultsNone(st, results, need) ==
    {[st |-> st, results |-> results]}

\* the loop that gives the default to the protocols of need that are still
\* without a result, storing each with cache.Set
RECURSIVE SetDefaults(_, _, _)
SetDefaults(st, results, need) ==
    IF need = << >>
    THEN {[st |-> st, results |-> results]}
    ELSE IF Head(need) \in DOMAIN results
    THEN SetDefaults(st, results, Tail(need))
    ELSE LET defaultClassification ==
                [Protocol |-> Head(need), Class |-> defaultClass,
                 Confidence |-> ConfDefault, Source |-> "default",
                 Timestamp |-> Unix(now)]
         IN  UNION { SetDefaults(st2, MapPut(results, Head(need), defaultClassification),
                                 Tail(need)) :
                        st2 \in SetOne(st, Head(need), defaultClassification) }

\* aiManager.ClassifyProtocols has returned: its entries are merged into
\* results and stored with cache.Set (an error is logged and dropped), the
\* protocols still without a result get the default, and results is returned
AppFinish ==
    /\ app.pc = "ai"
    /\ mgr.pc = "done"
    /\ LET aiResults == IF mgr.ret.err = "nil" THEN mgr.ret.results ELSE << >>
           merged == Merge(app.results, aiResults)
       IN  \E st \in SetBatchResults(CacheState, aiResults, DOMAIN aiResults) :
             \E fin \in SetDefaults(st, merged, app.needAIClassification) :
                /\ cacheEntries' = fin.st.entries
                /\ cacheStats' = fin.st.stats
                /\ app' = [app EXCEPT !.pc = "done", !.results = fin.results,
                              !.ret = fin.results]
    /\ op' = [name |-> "classifyProtocols.return", err |-> "nil"]
    /\ UNCHANGED <<cacheCfg, cacheFile, ruleVars, mgrVars, now>>

----------------------------------------------------------------------------
(* Circuit breaker: pkg/ai/ratelimiter.go *)

CircuitClosed == "closed"
CircuitOpen == "open"
CircuitHalfOpen == "half_open"
CircuitStates == {CircuitClosed, CircuitOpen, CircuitHalfOpen}

Callers == 1..NumCallers

\* NewCircuitBreaker(maxFailures, resetTimeout)
NewCircuitBreaker(mf, rt) ==
    [maxFailures |-> mf, resetTimeout |-> rt, state |-> CircuitClosed,
     failures |-> 0, lastFailureTime |-> ZeroTime]

\* mutant of allowRequest: an open breaker admits without waiting for the timeout
allowRequestIgnoresTimeout(b) ==
    b.state \in CircuitStates

\* CircuitBreaker.allowRequest, under the read lock: reads, never writes
allowRequest(b) ==
    CASE b.state = CircuitClosed -> TRUE
      [] b.state = CircuitOpen -> TimeSince(b.lastFailureTime) >= b.resetTimeout
      [] b.state = CircuitHalfOpen -> TRUE
      [] OTHER -> FALSE

\* mutant of recordResult: a success no longer clears the failure count
recordResultKeepsCount(b, failed) ==
    LET b1 == IF failed
              THEN [b EXCEPT !.failures = b.failures + 1,
                             !.lastFailureTime = now,
                             !.state = IF b.failures + 1 >= b.maxFailures
                                       THEN CircuitOpen ELSE b.state]
              ELSE [b EXCEPT !.state = IF b.state = CircuitHalfOpen
                                       THEN CircuitClosed ELSE b.state]
    IN  IF b1.state = CircuitOpen /\ TimeSince(b1.lastFailureTime) >= b1.resetTimeout
        THEN [b1 EXCEPT !.state = CircuitHalfOpen, !.failures = 0]
        ELSE b1

\* mutant of recordResult: reaching max_failures no longer opens the breaker
recordResultNeverOpens(b, failed) ==
    LET b1 == IF failed
              THEN [b EXCEPT !.failures = b.failures + 1,
                             !.lastFailureTime = now]
              ELSE [b EXCEPT !.failures = 0,
                             !.state = IF b.state = CircuitHalfOpen
                                       THEN CircuitClosed ELSE b.state]
    IN  IF b1.state = CircuitOpen /\ TimeSince(b1.lastFailureTime) >= b1.resetTimeout
        THEN [b1 EXCEPT !.state = CircuitHalfOpen, !.failures = 0]
        ELSE b1

\* CircuitBreaker.recordResult(err), under the write lock; failed <=> err != nil
recordResult(b, failed) ==
    LET b1 == IF failed
              THEN [b EXCEPT !.failures = b.failures + 1,
                             !.lastFailureTime = now,
                             !.state = IF b.failures + 1 >= b.maxFailures
                                       THEN CircuitOpen ELSE b.state]
              ELSE [b EXCEPT !.failures = 0,
                             !.state = IF b.state = CircuitHalfOpen
                                       THEN CircuitClosed ELSE b.state]
    IN  \* transition from open to half-open if the timeout has passed
        IF b1.state = CircuitOpen /\ TimeSince(b1.lastFailureTime) >= b1.resetTimeout
        THEN [b1 EXCEPT !.state = CircuitHalfOpen, !.failures = 0]
        ELSE b1

\* CircuitBreaker.GetState
GetState == cb.state

\* CircuitBreaker.Call, first half: allowRequest; a refused Call returns
\* ErrCircuitOpen at once, an admitted one starts the wrapped function
CallAllow(c) ==
    /\ callPc[c] = "idle"
    /\ IF allowRequest(cb)
       THEN /\ callPc' = [callPc EXCEPT ![c] = "running"]
            /\ admitted' = [admitted EXCEPT ![c] = cb.state]
            /\ op' = [name |-> "Call.fn", caller |-> c, ret |-> "pending"]
       ELSE /\ UNCHANGED <<callPc, admitted>>
            /\ op' = [name |-> "Call", caller |-> c, ret |-> "ErrCircuitOpen"]
    /\ UNCHANGED <<cb, streak, now>>

\* CircuitBreaker.Call, second half: the wrapped function returns err and
\* recordResult(err) stores the outcome; Call returns err
CallRecord(c) ==
    /\ callPc[c] = "running"
    /\ \E failed \in BOOLEAN :
          /\ cb' = recordResult(cb, failed)
          /\ op' = [name |-> "Call", caller |-> c,
                    ret |-> IF failed THEN "err" ELSE "nil",
                    branch |-> admitted[c]]
          /\ streak' = IF failed THEN streak + 1 ELSE 0
    /\ callPc' = [callPc EXCEPT ![c] = "idle"]
    /\ admitted' = [admitted EXCEPT ![c] = "none"]
    /\ UNCHANGED now

\* CircuitBreaker.Reset
cbReset ==
    /\ cb' = [cb EXCEPT !.state = CircuitClosed, !.failures = 0,
                        !.lastFailureTime = ZeroTime]
    /\ op' = [name |-> "Reset"]
    /\ streak' = 0
    /\ UNCHANGED <<callPc, admitted, now>>

CBInitWith(mfs, rts) ==
    /\ \E mf \in mfs, rt \in rts : cb = NewCircuitBreaker(mf, rt)
    /\ callPc = [c \in Callers |-> "idle"]
    /\ admitted = [c \in Callers |-> "none"]
    /\ streak = 0

CBIdle == UNCHANGED cbVars

----------------------------------------------------------------------------
(* Specifications: one per component *)

\* the cache of a specification that does not exercise it
CacheOff == CacheInitWith({1}, {0}, {FALSE}, {NoFile})

\* the manager of a specification that does not exercise it
MgrOff ==
    MgrInitWith({[Provider |-> "deepseek", APIKey |-> "key", Fallback |-> << >>,
                  Providers |-> << >>]}, {1})

\* the variables the rule-engine specification leaves alone
RulesFrame == UNCHANGED <<cbVars, cacheVars, mgrVars, rlxVars, refilled, lockVars, app, provVars>>

InitRules ==
    /\ ClockInit
    /\ AppInit
    /\ ProvOff
    /\ RulesInitWith({CS1, Other})
    /\ CBInitWith({1}, {1})
    /\ CacheOff
    /\ MgrOff

NextRules ==
    \/ (\E n \in Names, c \in {EF, AF21} : AddPredefinedClassification(n, c)) /\ RulesFrame
    \/ (\E r \in RuleInputs : AddCustomRule(r)) /\ RulesFrame
    \/ (\E n \in Names : DoClassifyProtocol(n)) /\ RulesFrame

SpecRules == InitRules /\ [][NextRules]_vars

\* the variables the circuit-breaker specification leaves alone
CBFrame == UNCHANGED <<ruleVars, cacheVars, mgrVars, rlxVars, refilled, lockVars, app, provVars>>

InitCB ==
    /\ ClockInit
    /\ AppInit
    /\ ProvOff
    /\ CBInitWith(1..MaxMaxFailures, 1..MaxResetTimeout)
    /\ RulesInitWith({CS1})
    /\ CacheOff
    /\ MgrOff

NextCB ==
    \/ (\E c \in Callers : CallAllow(c)) /\ CBFrame
    \/ (\E c \in Callers : CallRecord(c)) /\ CBFrame
    \/ cbReset /\ CBFrame
    \/ Tick /\ CBIdle /\ CBFrame

SpecCB == InitCB /\ [][NextCB]_vars

InitCache ==
    /\ ClockInit
    /\ AppInit
    /\ ProvOff
    /\ CacheInitWith(1..MaxMaxSize, 0..MaxTTL, {FALSE}, {NoFile})
    /\ CBInitWith({1}, {1})
    /\ RulesInitWith({CS1})
    /\ MgrOff

\* the variables the cache specifications leave alone
CacheFrame == UNCHANGED <<cbVars, ruleVars, mgrVars, rlxVars, refilled, lockVars, app, provVars>>

NextCache ==
    \/ (\E k \in CacheKeys : CacheGet(k)) /\ CacheFrame
    \/ (\E k \in CacheKeys : \E v \in CacheValues(k) : CacheSet(k, v)) /\ CacheFrame
    \/ Tick /\ CacheIdle /\ CacheFrame

SpecCache == InitCache /\ [][NextCache]_vars

\* the cache started over a file another run (or an older release) left
InitCacheBatch ==
    /\ ClockInit
    /\ AppInit
    /\ ProvOff
    /\ CacheInitWith(1..MaxMaxSize, {0}, {FALSE}, {NoFile})
    /\ CBInitWith({1}, {1})
    /\ RulesInitWith({CS1})
    /\ MgrOff

NextCacheBatch ==
    \/ (\E b \in Batches : CacheSetBatch(b)) /\ CacheFrame
    \/ (\E k \in CacheKeys : \E v \in CacheValues(k) : CacheSet(k, v)) /\ CacheFrame
    \/ Tick /\ CacheIdle /\ CacheFrame

SpecCacheBatch == InitCacheBatch /\ [][NextCacheBatch]_vars

\* the cache with its maintenance operations
InitCacheOps ==
    /\ ClockInit
    /\ AppInit
    /\ ProvOff
    /\ CacheInitWith(1..MaxMaxSize, 0..MaxTTL, {FALSE}, {NoFile})
    /\ CBInitWith({1}, {1})
    /\ RulesInitWith({CS1})
    /\ MgrOff

\* the keys the maintenance specification works on
OpsKeys == { <<"a">>, <<"b">> }

NextCacheOps ==
    \/ (\E k \in OpsKeys : CacheGet(k)) /\ CacheFrame
    \/ (\E k \in OpsKeys : \E v \in CacheValues(k) : CacheSet(k, v)) /\ CacheFrame
    \/ (\E k \in OpsKeys : CacheExists(k)) /\ CacheFrame
    \/ CacheCleanup /\ CacheFrame
    \/ Tick /\ CacheIdle /\ CacheFrame

SpecCacheOps == InitCacheOps /\ [][NextCacheOps]_vars

\* the key the goroutines of the lock specification contend for
LockKeys == { <<"a">> }

\* the variables the lock specification leaves alone
LockFrame == UNCHANGED <<cbVars, ruleVars, mgrVars, rlxVars, refilled, app, provVars>>

\* the cache called from several goroutines
InitCacheLock ==
    /\ ClockInit
    /\ AppInit
    /\ ProvOff
    /\ CacheInitWith({MaxMaxSize}, {0}, {FALSE}, {NoFile})
    /\ CBInitWith({1}, {1})
    /\ RulesInitWith({CS1})
    /\ MgrOff

NextCacheLock ==
    \/ (\E p \in CacheProcs, method \in LockMethods \cup RLockMethods :
           \E k \in IF method \in KeyedMethods THEN LockKeys ELSE {<< >>} :
              LockCall(p, method, k)) /\ LockFrame
    \/ (\E p \in CacheProcs : LockAcquire(p)) /\ LockFrame
    \/ (\E p \in CacheProcs : LockBody(p)) /\ LockFrame
    \/ (\E p \in CacheProcs : LockRelease(p)) /\ LockFrame

SpecCacheLock == InitCacheLock /\ [][NextCacheLock]_vars

InitCachePersist ==
    /\ ClockInit
    /\ AppInit
    /\ ProvOff
    /\ cacheCfg \in [maxSize : {MaxMaxSize}, ttl : {0, MaxTTL}, filePath : BOOLEAN,
                     compression : BOOLEAN]
    /\ cacheEntries = << >>
    /\ cacheStats = [Hits |-> 0, Misses |-> 0, Evictions |-> 0, Size |-> 0, LastCleanup |-> 0]
    /\ LockInit
    /\ cacheFile \in {NoFile, GarbageFile} \cup LegacyFiles
    /\ CBInitWith({1}, {1})
    /\ RulesInitWith({CS1})
    /\ MgrOff

NextCachePersist ==
    \/ (\E k \in CacheKeys : \E v \in CacheValues(k) : CacheSet(k, v)) /\ CacheFrame
    \/ CacheSave /\ CacheFrame
    \/ CacheLoad /\ CacheFrame
    \/ CacheNew /\ CacheFrame

SpecCachePersist == InitCachePersist /\ [][NextCachePersist]_vars

InitCacheLoad ==
    /\ ClockInit
    /\ AppInit
    /\ ProvOff
    /\ CacheInitWith({MaxMaxSize}, 0..MaxTTL, BOOLEAN, {NoFile, GarbageFile} \cup LegacyFiles)
    /\ CBInitWith({1}, {1})
    /\ RulesInitWith({CS1})
    /\ MgrOff

NextCacheLoad ==
    \/ CacheLoad /\ CacheFrame
    \/ (\E k \in CacheKeys : CacheGet(k)) /\ CacheFrame
    \/ Tick /\ CacheIdle /\ CacheFrame

SpecCacheLoad == InitCacheLoad /\ [][NextCacheLoad]_vars

\* the variables a refill tick leaves alone beside those Refill names
RefillFrame == UNCHANGED <<cbVars, ruleVars, cacheVars, rlxVars, lockVars, app, provVars>>

\* the variables the manager specification leaves alone
MgrFrame == UNCHANGED <<cbVars, ruleVars, cacheVars, rlxVars, refilled, lockVars, app, provVars>>

InitManager ==
    /\ ClockInit
    /\ AppInit
    /\ ProvOff
    /\ MgrInitWith(AiConfigs, 1..MaxBurst)
    /\ CBInitWith({1}, {1})
    /\ RulesInitWith({CS1})
    /\ CacheOff

\* protocol lists handed to Manager.ClassifyProtocols
ProtocolLists == UNION { [1..n -> AiNames] : n \in 0..MaxProtocols }

NextManager ==
    \/ (\E ps \in ProtocolLists, b \in 1..MaxBatchSize : MgrStart(ps, b)) /\ MgrFrame
    \/ MgrWaitToken /\ MgrFrame
    \/ MgrWaitCancelled /\ MgrFrame
    \/ MgrSkip /\ MgrFrame
    \/ MgrInvoke /\ MgrFrame
    \/ MgrAllFailed /\ MgrFrame
    \/ Refill /\ RefillFrame
    \/ Cancel /\ MgrFrame

SpecManager == InitManager /\ [][NextManager]_vars

\* the manager with a primary that may lack its key and one stub fallback,
\* given lists long enough for a full batch followed by a short one
InitManagerBatch ==
    /\ ClockInit
    /\ AppInit
    /\ ProvOff
    /\ MgrInitWith({[Provider |-> "deepseek", APIKey |-> k,
                     Fallback |-> <<[Provider |-> "claude", Enabled |-> TRUE]>>,
                     Providers |-> ("claude" :> [APIKey |-> "key3"])] : k \in {"", "key"}},
                   1..MaxBurst)
    /\ CBInitWith({1}, {1})
    /\ RulesInitWith({CS1})
    /\ CacheOff

\* protocol lists of up to MaxBatchProtocols names
BatchProtocolLists == UNION { [1..n -> AiNames] : n \in 0..MaxBatchProtocols }

NextManagerBatch ==
    \/ (\E ps \in BatchProtocolLists, b \in 1..MaxBatchSize : MgrStart(ps, b)) /\ MgrFrame
    \/ MgrWaitToken /\ MgrFrame
    \/ MgrWaitCancelled /\ MgrFrame
    \/ MgrSkip /\ MgrFrame
    \/ MgrInvoke /\ MgrFrame
    \/ MgrAllFailed /\ MgrFrame
    \/ Refill /\ RefillFrame
    \/ Cancel /\ MgrFrame

SpecManagerBatch == InitManagerBatch /\ [][NextManagerBatch]_vars

\* the refill ticker keeps ticking, a Wait whose select has a ready case
\* takes it, and classifyBatch goes on: every provider call returns
FairManager ==
    /\ WF_vars(Refill /\ RefillFrame)
    /\ WF_vars(MgrWaitToken /\ MgrFrame)
    /\ WF_vars(MgrWaitCancelled /\ MgrFrame)
    /\ WF_vars(MgrSkip /\ MgrFrame)
    /\ WF_vars(MgrInvoke /\ MgrFrame)
    /\ WF_vars(MgrAllFailed /\ MgrFrame)

SpecManagerFair == SpecManagerBatch /\ FairManager

\* the variables the provider specifications leave alone
ProvFrame ==
    UNCHANGED <<cbVars, ruleVars, cacheVars, aiCfg, providers, rl, mgr, rlxVars,
                refilled, lockVars, app>>

\* a provider with max_backoff between one second and MaxMaxBackoff seconds
InitProvider ==
    /\ ClockInit
    /\ AppInit
    /\ api \in {ApiIdle(s * TicksPerSecond) : s \in 1..MaxMaxBackoff}
    /\ resp = RespIdle
    /\ CBInitWith({1}, {1})
    /\ RulesInitWith({CS1})
    /\ CacheOff
    /\ MgrOff

NextProvider ==
    \/ ApiCall /\ ProvFrame
    \/ ApiAttemptOK /\ ProvFrame
    \/ ApiAttemptFail /\ ProvFrame
    \/ ApiBackoffCancelled /\ ProvFrame
    \/ ApiBackoffExpire /\ ProvFrame
    \/ ApiTick /\ ProvFrame
    \/ Cancel /\ MgrFrame

SpecProvider == InitProvider /\ [][NextProvider]_vars

\* a response has arrived for a batch
InitParse ==
    /\ ClockInit
    /\ AppInit
    /\ api = ApiIdle(baseDelay)
    /\ resp \in {[RespIdle EXCEPT !.pc = "received", !.content = c, !.protocols = ps] :
                    c \in Contents, ps \in ParseBatches}
    /\ CBInitWith({1}, {1})
    /\ RulesInitWith({CS1})
    /\ CacheOff
    /\ MgrOff

NextParse ==
    ParseResponse /\ ProvFrame

SpecParse == InitParse /\ [][NextParse]_vars

\* the variables the application specification leaves alone
AppFrame == UNCHANGED <<cbVars, rlxVars, refilled, lockVars, provVars>>

\* the variables a step of the manager inside the application leaves alone
AppMgrFrame == UNCHANGED <<cbVars, ruleVars, cacheVars, rlxVars, refilled, lockVars, app, provVars>>

\* NewApplication with sip -> EF in the predefined table, the rule
\* .*voice.* -> EF at priority 1 or no rule, and an empty cache
InitApp ==
    /\ ClockInit
    /\ AppInit
    /\ ProvOff
    /\ predefinedClassifications = (Sip :> EF)
    /\ customRules \in
          { << >>,
            <<[Name |-> "voice", Pattern |-> VoicePattern, Class |-> EF,
               Priority |-> 1, Enabled |-> TRUE, compiled |-> TRUE]>> }
    /\ defaultClass = CS1
    /\ CacheInitWith({3}, {0}, {FALSE}, {NoFile})
    /\ CBInitWith({1}, {1})
    /\ MgrInitWith({[Provider |-> "deepseek", APIKey |-> k, Fallback |-> << >>,
                     Providers |-> << >>] : k \in {"", "key"}}, {1})

NextApp ==
    \/ (\E ps \in AppProtocolLists, b \in 1..MaxBatchSize : AppStart(ps, b)) /\ AppFrame
    \/ AppLoop /\ AppFrame
    \/ AppReturn /\ AppFrame
    \/ AppCallAI /\ AppFrame
    \/ MgrWaitToken /\ AppMgrFrame
    \/ MgrWaitCancelled /\ AppMgrFrame
    \/ MgrSkip /\ AppMgrFrame
    \/ MgrInvoke /\ AppMgrFrame
    \/ MgrAllFailed /\ AppMgrFrame
    \/ Refill /\ RefillFrame
    \/ Cancel /\ AppMgrFrame
    \/ AppFinish /\ AppFrame

SpecApp == InitApp /\ [][NextApp]_vars

\* the variables the rate-limiter specification leaves alone
RLFrame ==
    UNCHANGED <<cbVars, ruleVars, cacheVars, aiCfg, providers, ctxDone, mgr, refilled, lockVars, app, provVars>>

InitRL ==
    /\ ClockInit
    /\ AppInit
    /\ ProvOff
    /\ MgrInitWith({[Provider |-> "deepseek", APIKey |-> "key", Fallback |-> << >>,
                     Providers |-> << >>]}, BurstSizes)
    /\ CBInitWith({1}, {1})
    /\ RulesInitWith({CS1})
    /\ CacheOff

NextRL ==
    \/ (\E w \in Waiters : WaitCall(w)) /\ RLFrame
    \/ (\E w \in Waiters : WaitCtxCancel(w)) /\ RLFrame
    \/ (\E w \in Waiters : WaitTake(w)) /\ RLFrame
    \/ (\E w \in Waiters : WaitDone(w)) /\ RLFrame
    \/ (\E w \in Waiters : WaitBlocked(w)) /\ RLFrame
    \/ (\E w \in Waiters : WaitReturn(w)) /\ RLFrame
    \/ TrySelect /\ RLFrame
    \/ TryCount /\ RLFrame
    \/ (\E r \in RpmValues, b \in NewBurstSizes : UpdStart(r, b)) /\ RLFrame
    \/ UpdDrain /\ RLFrame
    \/ UpdSwap /\ RLFrame
    \/ rlClose /\ RLFrame
    \/ Refill /\ RefillFrame

SpecRL == InitRL /\ [][NextRL]_vars

\* the goroutines are scheduled: the refill ticker keeps ticking, a running
\* UpdateLimits or TryAcquire goes on, a Wait whose select has a ready case
\* takes it and a Wait that may return returns
FairRL ==
    /\ WF_vars(Refill /\ RefillFrame)
    /\ WF_vars(UpdDrain /\ RLFrame)
    /\ WF_vars(UpdSwap /\ RLFrame)
    /\ WF_vars(TryCount /\ RLFrame)
    /\ \A w \in Waiters :
          /\ SF_vars(WaitTake(w) /\ RLFrame)
          /\ WF_vars(WaitDone(w) /\ RLFrame)
          /\ WF_vars(WaitBlocked(w) /\ RLFrame)
          /\ WF_vars(WaitReturn(w) /\ RLFrame)

SpecRLFair == SpecRL /\ FairRL

----------------------------------------------------------------------------
(* Rule engine: properties *)

\* the enabled rules that match a protocol name, as indices of customRules
Matching(name) ==
    {i \in 1..Len(customRules) : customRules[i].Enabled
                                 /\ MatchString(customRules[i].Pattern, ToLower(name))}

\* the matching rules with the smallest priority number
BestMatching(name) ==
    {i \in Matching(name) :
        \A j \in Matching(name) : customRules[i].Priority <= customRules[j].Priority}

\* C1 (as claimed): for a protocol outside the predefined table that some
\* enabled custom rule matches, ClassifyProtocol returns the class of the
\* matching enabled rule with the smallest priority number, whatever the
\* order the rules were added in, with source custom_rule and confidence 0.9.
C1_PriorityOrder ==
    ( /\ op.name = "ClassifyProtocol"
      /\ ToLower(op.protocol) \notin DOMAIN predefinedClassifications
      /\ Matching(op.protocol) # {} )
    => ( /\ op.result.Source = "custom_rule"
         /\ op.result.Confidence = ConfCustomRule
         /\ \E i \in BestMatching(op.protocol) : op.result.Class = customRules[i].Class )

----------------------------------------------------------------------------
(* Cache store: properties *)

\* C7 (as claimed): a Set of a new key into a cache holding max_size entries
\* removes exactly one entry, one whose last_accessed is the oldest, and
\* inserts the new key, leaving the other entries as they were; this at any
\* clock readings, equal ones included.
C7_EvictsOldest ==
    [][\A k \in CacheKeys :
          ( /\ op'.name = "Set"
            /\ op'.key = k
            /\ k \notin DOMAIN cacheEntries
            /\ Cardinality(DOMAIN cacheEntries) = cacheCfg.maxSize )
          => \E v \in DOMAIN cacheEntries :
                /\ \A j \in DOMAIN cacheEntries :
                      cacheEntries[v].LastAccessed <= cacheEntries[j].LastAccessed
                /\ DOMAIN cacheEntries' = ((DOMAIN cacheEntries) \ {v}) \cup {k}
                /\ \A j \in (DOMAIN cacheEntries) \ {v} : cacheEntries'[j] = cacheEntries[j]
      ]_vars

\* C8 (as claimed): right after a Load that fell back to the legacy format,
\* every reconstructed entry is valid and stays valid exactly until the
\* configured TTL has elapsed since the load (for ever when the TTL is 0),
\* by the rule IsExpired applies.
C8_LegacyEntriesCarryTTL ==
    (op.name = "Load" /\ op.format = "legacy")
        => \A k \in DOMAIN cacheEntries : \A t \in now..MaxTime :
              ExpiredAt(cacheEntries[k], t) <=> (cacheCfg.ttl > 0 /\ t >= now + cacheCfg.ttl)

----------------------------------------------------------------------------
(* Circuit breaker: properties *)

\* callers whose wrapped function is in flight after being admitted by the
\* open branch of allowRequest (reset_timeout elapsed): the probes
Probes == {c \in Callers : callPc[c] = "running" /\ admitted[c] = CircuitOpen}

\* C2 (as claimed): once reset_timeout has elapsed on an open breaker at most
\* one Call is admitted as a probe; while its outcome is not yet recorded no
\* other Call has its wrapped function invoked.
C2_SingleProbe == Cardinality(Probes) <= 1

\* C3 (as claimed): when the probe admitted after reset_timeout on an open
\* breaker succeeds, the breaker is closed with a failure count of zero as
\* soon as that Call returns.
C3_ProbeSuccessCloses ==
    (op.name = "Call" /\ op.ret = "nil" /\ op.branch = CircuitOpen)
        => (cb.state = CircuitClosed /\ cb.failures = 0)

\* C4 (as claimed): a Call made while the breaker is half_open that fails
\* returns the breaker to open and restarts the timeout from that failure,
\* whatever max_failures is.
C4_HalfOpenFailureReopens ==
    (op.name = "Call" /\ op.ret = "err" /\ op.branch = CircuitHalfOpen)
        => (cb.state = CircuitOpen /\ cb.lastFailureTime = now)

\* C5: after max_failures failed Calls in a row GetState reports open; a
\* successful Call resets the failure count to zero; the breaker turns open
\* only by a failure that completes max_failures failures in a row.
C5_OpensAfterMaxFailures ==
    /\ [](streak >= cb.maxFailures => GetState = CircuitOpen)
    /\ []((op.name = "Call" /\ op.ret = "nil") => cb.failures = 0)
    /\ [][(cb.state # CircuitOpen /\ cb'.state = CircuitOpen)
            => (op'.name = "Call" /\ op'.ret = "err" /\ streak' >= cb.maxFailures)]_vars

\* C5 witness: the second of two failures in a row has just opened a
\* breaker built with max_failures = 2.
C5_Witness ==
    /\ op.name = "Call" /\ op.ret = "err"
    /\ cb.maxFailures = 2 /\ streak = 2
    /\ GetState = CircuitOpen

\* C6: a Call made while the breaker is open and reset_timeout has not yet
\* elapsed since the last failure returns ErrCircuitOpen, does not start
\* the wrapped function, and leaves state, failure count and last-failure
\* time as they were.
C6_OpenRejects ==
    [][\A c \in Callers :
          ( /\ op'.name \in {"Call", "Call.fn"}
            /\ op'.caller = c
            /\ callPc[c] = "idle"
            /\ cb.state = CircuitOpen
            /\ TimeSince(cb.lastFailureTime) < cb.resetTimeout )
          => ( /\ op'.ret = "ErrCircuitOpen"
               /\ callPc'[c] = "idle"
               /\ cb' = cb )]_vars

\* C6 witness: a Call has just been refused by an open breaker.
C6_Witness ==
    /\ op.name = "Call" /\ op.ret = "ErrCircuitOpen"
    /\ cb.state = CircuitOpen
    /\ TimeSince(cb.lastFailureTime) < cb.resetTimeout

----------------------------------------------------------------------------
(* Provider manager: properties *)

\* C9: when every provider fails for one batch of a ClassifyProtocols call,
\* the failure is surfaced to the caller and the entries already merged from
\* the earlier, successful batches of the same call are still returned to the
\* caller as a partial result.
C9_PartialResultsReturned ==
    (mgr.pc = "done" /\ mgr.ret.err = "all_providers_failed") =>
        /\ mgr.ret.err # "nil"
        /\ \A k \in DOMAIN mgr.results :
              /\ k \in DOMAIN mgr.ret.results
              /\ mgr.ret.results[k] = mgr.results[k]

\* the names of a provider list
ProviderNames(ps) == [i \in 1..Len(ps) |-> ps[i].name]

\* the fallbacks of the configuration that make it into the provider list
UsableFallbacks ==
    SelectSeq(aiCfg.Fallback,
              LAMBDA fb : /\ fb.Enabled
                          /\ fb.Provider \in DOMAIN aiCfg.Providers
                          /\ fb.Provider \in SupportedProviders)

\* the indices up to n of the providers that hold an API key, ascending
WithKeyUpTo(n) ==
    SelectSeq([i \in 1..n |-> i], LAMBDA i : providers[i].apiKey # "")

\* C10: for each batch the providers are attempted in the order primary, then
\* enabled fallbacks in configuration order; a provider that is not available
\* is never invoked and is not counted as a failure; after the first provider
\* that succeeds none is invoked for that batch, and only that provider's
\* entries are merged: a provider that returned an error contributes nothing,
\* even when it returned a non-empty map as well.
C10_ProviderOrder ==
    /\ [](ProviderNames(providers) =
              <<aiCfg.Provider>> \o
              [i \in 1..Len(UsableFallbacks) |-> UsableFallbacks[i].Provider])
    /\ [](mgr.pc = "batch" => mgr.invoked = WithKeyUpTo(mgr.j - 1))
    /\ [](mgr.lastErr = 0 \/ \E n \in 1..Len(mgr.invoked) : mgr.invoked[n] = mgr.lastErr)
    /\ [][ (op'.name = "skip") =>
              /\ mgr'.lastErr = mgr.lastErr
              /\ mgr'.invoked = mgr.invoked
              /\ mgr'.results = mgr.results ]_vars
    /\ [][ (op'.name = "provider") =>
              /\ mgr.pc = "batch"
              /\ providers[op'.provider].apiKey # ""
              /\ mgr'.invoked = Append(mgr.invoked, op'.provider)
              /\ IF op'.err = "nil"
                 THEN /\ mgr'.pc # "batch"
                      /\ DOMAIN mgr'.results = (DOMAIN mgr.results) \cup (DOMAIN op'.results)
                      /\ \A k \in DOMAIN mgr'.results :
                            IF k \in DOMAIN op'.results
                            THEN /\ mgr'.results[k].Class = op'.results[k].Class
                                 /\ mgr'.results[k].Confidence = op'.results[k].Confidence
                                 /\ mgr'.results[k].Source = "ai"
                            ELSE mgr'.results[k] = mgr.results[k]
                 ELSE /\ mgr'.results = mgr.results
                      /\ mgr'.lastErr = op'.provider ]_vars

\* C10 witness: the primary holds no key and was skipped, the first fallback
\* was invoked and returned an error together with a non-empty map, the second
\* fallback has just succeeded, and the merged entries are the second
\* fallback's.
C10_Witness ==
    /\ op.name = "provider" /\ op.err = "nil" /\ op.provider = 3
    /\ providers[1].apiKey = ""
    /\ providers[2].name \in StubProviders
    /\ mgr.invoked = <<2, 3>>
    /\ DOMAIN op.results # {}
    /\ \A k \in DOMAIN op.results : mgr.results[k].Class = op.results[k].Class

----------------------------------------------------------------------------
(* Rate limiter: properties *)

\* C11: while the refill task is alive and the goroutines are scheduled,
\* every Wait call eventually returns, whatever Wait, TryAcquire,
\* UpdateLimits and refill steps are interleaved with it.
C11_WaitReturns ==
    \A w \in Waiters : (waiters[w].pc = "select") ~> (waiters[w].pc = "returned")

\* the Wait calls that have received a token
Granted == {w \in Waiters : waiters[w].ret = "nil"}

WaitStepOf(w, o) ==
    /\ o.name \in {"Wait.call", "Wait.token", "Wait.done", "Wait.blocked", "Wait"}
    /\ o.waiter = w

\* C13: a Wait call that returns nil has taken exactly one token, in one
\* step; a Wait call that returns the cancellation error has taken none and
\* none of its steps changes a token channel; Wait returns an error only if
\* its context was cancelled.
C13_WaitTokenAccounting ==
    /\ [](\A w \in Waiters :
            /\ waiters[w].pc = "returned" => waiters[w].ret \in {"nil", "ctx.Err"}
            /\ waiters[w].ret = "ctx.Err" => waiters[w].cancelled)
    /\ [][ \A w \in Waiters :
             WaitStepOf(w, op') =>
                IF op'.name = "Wait.token"
                THEN /\ waiters[w].ret = "none" /\ waiters'[w].ret = "nil"
                     /\ ChanLen(waiters[w].chan) = 1 +
                           (IF waiters[w].chan = Len(rlOld') + 1
                            THEN rl'.tokens ELSE rlOld'[waiters[w].chan])
                     /\ \A ch \in 1..CurrentChan :
                           ch # waiters[w].chan =>
                              ChanLen(ch) = (IF ch = Len(rlOld') + 1
                                             THEN rl'.tokens ELSE rlOld'[ch])
                ELSE /\ rl' = rl /\ rlOld' = rlOld
                     /\ waiters'[w].ret \in {waiters[w].ret, "ctx.Err"}
                     /\ (waiters[w].ret = "nil" => waiters'[w].ret = "nil") ]_vars

\* C13 witness: one Wait has returned the cancellation error while a token
\* was in the bucket, and another Wait has returned nil.
C13_Witness ==
    /\ op.name = "Wait" /\ op.ret = "ctx.Err"
    /\ rl.tokens > 0
    /\ \E w \in Waiters : waiters[w].pc = "returned" /\ waiters[w].ret = "nil"

RECURSIVE SumSeq(_)
SumSeq(q) == IF q = << >> THEN 0 ELSE Head(q) + SumSeq(Tail(q))

\* every token there is: in the bucket, left in a replaced channel, or taken
\* out by a running UpdateLimits for transfer
AllTokens == rl.tokens + SumSeq(rlOld) + (IF upd.pc = "drain" THEN upd.drained ELSE 0)

C15_RefillStopsAfterClose == rlClosed ~> ~refillAlive

----------------------------------------------------------------------------
(* Cache store: Get, expiry and overwrite *)

\* C16: Get(key) returns found = true with the classification stored for key
\* iff key is present and not expired; a hit adds one to the hit counter and
\* touches the entry (access_count + 1, last_accessed = now); every miss adds
\* one to the miss counter and a miss caused by expiry removes the entry; no
\* other operation changes the two counters, so hits + misses is the number
\* of Get calls.
C16_GetContract ==
    [][ IF op'.name = "Get"
        THEN LET k == op'.key
                 live == /\ k \in DOMAIN cacheEntries
                         /\ ~(cacheEntries[k].TTL > 0 /\
                              now >= cacheEntries[k].Timestamp + cacheEntries[k].TTL)
             IN  /\ op'.found <=> live
                 /\ \A x \in (DOMAIN cacheEntries) \ {k} :
                       x \in DOMAIN cacheEntries' /\ cacheEntries'[x] = cacheEntries[x]
                 /\ IF live
                    THEN /\ op'.value = cacheEntries[k].Classification
                         /\ DOMAIN cacheEntries' = DOMAIN cacheEntries
                         /\ cacheEntries'[k].Classification = cacheEntries[k].Classification
                         /\ cacheEntries'[k].AccessCount = cacheEntries[k].AccessCount + 1
                         /\ cacheEntries'[k].LastAccessed = now
                         /\ cacheStats'.Hits = cacheStats.Hits + 1
                         /\ cacheStats'.Misses = cacheStats.Misses
                    ELSE /\ op'.value = NoClassification
                         /\ DOMAIN cacheEntries' = (DOMAIN cacheEntries) \ {k}
                         /\ cacheStats'.Misses = cacheStats.Misses + 1
                         /\ cacheStats'.Hits = cacheStats.Hits
        ELSE /\ cacheStats'.Hits = cacheStats.Hits
             /\ cacheStats'.Misses = cacheStats.Misses
             /\ \A x \in (DOMAIN cacheEntries) \cap (DOMAIN cacheEntries') :
                   \/ (op'.name = "Set" /\ op'.key = x)
                   \/ cacheEntries'[x].Classification = cacheEntries[x].Classification ]_vars

\* C16 witness: a second Get of the same key has hit, after a first hit.
C16_Witness ==
    /\ op.name = "Get" /\ op.found
    /\ cacheStats.Hits = 2
    /\ cacheEntries[op.key].AccessCount = 3
    /\ cacheEntries[op.key].LastAccessed = now

\* C17: an entry stored with ttl > 0 is not found by a Get made once ttl has
\* elapsed since it was written, and that Get makes Size() one less; a Get
\* made earlier finds it and leaves its write time and ttl alone, so the
\* lifetime runs from the write and not from the last access; an entry with
\* ttl = 0 is always found.
C17_ExpiryFromWrite ==
    [][ /\ (op'.name = "Set") =>
              /\ cacheEntries'[op'.key].Timestamp = now
              /\ cacheEntries'[op'.key].TTL = cacheCfg.ttl
        /\ (op'.name = "Get" /\ op'.key \in DOMAIN cacheEntries) =>
              LET e == cacheEntries[op'.key]
              IN  IF e.TTL > 0 /\ now >= e.Timestamp + e.TTL
                  THEN /\ ~op'.found
                       /\ Cardinality(DOMAIN cacheEntries')
                             = Cardinality(DOMAIN cacheEntries) - 1
                  ELSE /\ op'.found
                       /\ cacheEntries'[op'.key].Timestamp = e.Timestamp
                       /\ cacheEntries'[op'.key].TTL = e.TTL ]_vars

\* C17 witness: the one entry of the cache was found by a Get, and a later
\* Get, made once its ttl had elapsed since the write, has removed it.
C17_Witness ==
    /\ op.name = "Get" /\ ~op.found
    /\ cacheStats.Hits = 1 /\ cacheStats.Misses = 1
    /\ cacheStats.Evictions = 0 /\ cacheStats.Size = 0
    /\ cacheEntries = << >>

\* the keys ks, all present, have been overwritten in this step and nothing
\* else has happened to the store
Overwritten(ks) ==
    /\ DOMAIN cacheEntries' = DOMAIN cacheEntries
    /\ \A x \in (DOMAIN cacheEntries) \ ks : cacheEntries'[x] = cacheEntries[x]
    /\ \A k \in ks :
          /\ cacheEntries'[k].Timestamp = now
          /\ cacheEntries'[k].LastAccessed = now
          /\ cacheEntries'[k].AccessCount = 1
          /\ cacheEntries'[k].TTL = cacheCfg.ttl
          /\ cacheEntries'[k].Classification \in CacheValues(k)
    /\ cacheStats'.Evictions = cacheStats.Evictions

\* C18: Set, and SetBatch, on keys that already exist replace those entries in
\* full and never evict: every other entry, the number of entries and the
\* eviction counter are unchanged, also when the cache is at or above
\* max_size; in a SetBatch this holds for every turn of the loop that meets
\* an existing key.
C18_OverwriteNeverEvicts ==
    /\ [][ /\ (op'.name = "Set" /\ op'.key \in DOMAIN cacheEntries) =>
                 Overwritten({op'.key})
           /\ (op'.name = "SetBatch" /\ DOMAIN op'.batch \subseteq DOMAIN cacheEntries) =>
                 /\ Overwritten(DOMAIN op'.batch)
                 /\ \A k \in DOMAIN op'.batch :
                       cacheEntries'[k].Classification = op'.batch[k] ]_vars
    /\ [](\A k \in DOMAIN cacheEntries : \A v \in CacheValues(k) :
             \A st \in SetOne([entries |-> cacheEntries, stats |-> cacheStats], k, v) :
                /\ DOMAIN st.entries = DOMAIN cacheEntries
                /\ st.stats = cacheStats
                /\ \A x \in (DOMAIN cacheEntries) \ {k} : st.entries[x] = cacheEntries[x]
                /\ st.entries[k].Classification = v)

\* C18 witness: a SetBatch of two keys that both existed has run on a cache
\* that holds more entries than max_size.
C18_Witness ==
    /\ op.name = "SetBatch"
    /\ op.existed = DOMAIN op.batch
    /\ Cardinality(DOMAIN op.batch) = 2
    /\ Cardinality(DOMAIN cacheEntries) > cacheCfg.maxSize
    /\ \A k \in DOMAIN op.batch : cacheEntries[k].Classification = op.batch[k]

----------------------------------------------------------------------------
(* Cache store: persistence *)

\* C19: Save followed by Load into a fresh cache with the same configuration
\* reproduces the entry set, with and without compression: the file a
\* successful Save leaves is one Load reads in the structured format, each of
\* its members decodes to the entry that was saved under that key, and a Load
\* of a structured file installs exactly the decoded members.
C19_SaveLoadRoundTrip ==
    /\ [][ (op'.name = "Save" /\ op'.ret = "nil" /\ cacheCfg.filePath) =>
              /\ cacheFile'.exists
              /\ cacheFile'.gzip = cacheCfg.compression
              /\ cacheFile'.format = "entries"
              /\ DOMAIN cacheFile'.data = DOMAIN cacheEntries
              /\ \A k \in DOMAIN cacheEntries :
                    DecodeEntry(cacheFile'.data[k]) = cacheEntries[k] ]_vars
    /\ [][ (op'.name = "Load" /\ cacheFile.exists /\ cacheCfg.filePath
              /\ cacheFile.format = "entries" /\ cacheFile.gzip = cacheCfg.compression
              /\ op'.ret = "nil") =>
              /\ op'.format = "entries"
              /\ DOMAIN cacheEntries' = DOMAIN cacheFile.data
              /\ \A k \in DOMAIN cacheFile.data :
                    cacheEntries'[k] = DecodeEntry(cacheFile.data[k]) ]_vars
    /\ [][ (cacheFile' # cacheFile) => op'.name = "Save" ]_vars

\* C19 witness: a fresh cache has loaded a compressed file written by Save and
\* holds an entry stored by Set and an entry that came from a legacy file.
C19_Witness ==
    /\ op.name = "Load" /\ op.ret = "nil" /\ op.format = "entries"
    /\ op.prior = 0
    /\ cacheCfg.compression
    /\ cacheStats.Evictions = 0 /\ cacheStats.Size = 2
    /\ \E k \in DOMAIN cacheEntries :
          /\ cacheEntries[k].Classification.Source = "custom_rule"
          /\ cacheEntries[k].Classification.Confidence = ConfCustomRule
    /\ \E k \in DOMAIN cacheEntries :
          /\ cacheEntries[k].Classification.Source = "cache"
          /\ cacheEntries[k].Classification.Confidence = 0

----------------------------------------------------------------------------
(* Cache store: Exists and Cleanup *)

\* an entry whose ttl is positive and has run out at clock reading t
RanOut(e, t) == e.TTL > 0 /\ t >= e.Timestamp + e.TTL

\* C21: Exists(key) is true iff key is present and not expired, the answer
\* Get gives, and it changes nothing: entries (with their access counts and
\* last-access times) and counters stay as they are, and an expired entry is
\* not removed.
C21_ExistsReadOnly ==
    [][op'.name = "Exists" =>
          /\ op'.ret = (/\ op'.key \in DOMAIN cacheEntries
                        /\ ~RanOut(cacheEntries[op'.key], now))
          /\ cacheEntries' = cacheEntries
          /\ cacheStats' = cacheStats]_vars

\* C21, its case: Exists has answered false for an expired entry, which is
\* still in the store
C21_Witness ==
    /\ op.name = "Exists"
    /\ ~op.ret
    /\ op.key \in DOMAIN cacheEntries
    /\ RanOut(cacheEntries[op.key], now)

\* C22: after Cleanup no expired entry is left, every entry that was not
\* expired is still there as it was, nothing else is in the store, and the
\* hit, miss and eviction counters are unchanged.
C22_CleanupRemovesExpired ==
    [][op'.name = "Cleanup" =>
          /\ \A k \in DOMAIN cacheEntries' : ~RanOut(cacheEntries'[k], now)
          /\ DOMAIN cacheEntries' \subseteq DOMAIN cacheEntries
          /\ \A k \in DOMAIN cacheEntries :
                ~RanOut(cacheEntries[k], now) =>
                    (k \in DOMAIN cacheEntries' /\ cacheEntries'[k] = cacheEntries[k])
          /\ cacheStats'.Hits = cacheStats.Hits
          /\ cacheStats'.Misses = cacheStats.Misses
          /\ cacheStats'.Evictions = cacheStats.Evictions]_vars

\* C22, its case: a Cleanup has removed an expired entry and kept a live one
\* that carries a ttl
C22_Witness ==
    /\ op.name = "Cleanup"
    /\ op.removed > 0
    /\ \E k \in DOMAIN cacheEntries : cacheEntries[k].TTL > 0

----------------------------------------------------------------------------
(* Cache store: the reader/writer lock *)

\* the goroutines that are between lock and unlock of a Cache method
InBody(p) == cacheProc[p].pc = "body"

\* C23 (as claimed): a method whose body writes entries or statistics runs
\* under the exclusive lock, a method that holds only the read lock writes
\* no field of the cache, and so no two goroutines inside Cache methods at
\* the same time touch a field one of them writes.
C23_LockDiscipline ==
    /\ \A p \in CacheProcs :
          (InBody(p) /\ FieldsWritten(cacheProc[p].method) # {}) => rwmutex.writer = p
    /\ \A p, q \in CacheProcs :
          (p # q /\ InBody(p) /\ InBody(q)) =>
              FieldsWritten(cacheProc[p].method)
                  \cap (FieldsRead(cacheProc[q].method)
                           \cup FieldsWritten(cacheProc[q].method)) = {}

----------------------------------------------------------------------------
(* Circuit breaker: atomicity of Call *)

\* C24 (as claimed): admission, the wrapped call and the recording of its
\* outcome are one atomic step with respect to other Calls.  In a serial
\* execution a Call admitted by the closed breaker has its outcome recorded
\* before any other Call acts, so no other Call's failure can have opened
\* the breaker while its wrapped function is still in flight (with
\* max_failures = 1 and two failing Calls only one function is invoked).
C24_CallsSerial ==
    \A c \in Callers :
        (callPc[c] = "running" /\ admitted[c] = CircuitClosed) => cb.state # CircuitOpen

----------------------------------------------------------------------------
(* Rule engine: the predefined table and rule validation *)

\* two names that differ at most in the casing of their letters
SameLetters(x, y) ==
    /\ Len(x) = Len(y)
    /\ \A i \in 1..Len(x) : LowerChar(x[i]) = LowerChar(y[i])

\* C25: a name that is in the predefined table, in whatever casing it is
\* given, is classified with the table's class, confidence 1.0 and source
\* predefined, also when custom rules match it.
C25_PredefinedAnyCasing ==
    op.name = "ClassifyProtocol" =>
        \A k \in DOMAIN predefinedClassifications :
            SameLetters(op.protocol, k) =>
                /\ op.result.Class = predefinedClassifications[k]
                /\ op.result.Confidence = ConfPredefined
                /\ op.result.Source = "predefined"

\* C25, its case: a name with upper-case letters was classified from the
\* table although a custom rule with another class matches it
C25_Witness ==
    /\ op.name = "ClassifyProtocol"
    /\ \E i \in 1..Len(op.protocol) : op.protocol[i] \in {"A", "B"}
    /\ \E k \in DOMAIN predefinedClassifications :
          /\ SameLetters(op.protocol, k)
          /\ op.result.Source = "predefined"
          /\ \E i \in 1..Len(customRules) :
                /\ Match(customRules[i], op.protocol)
                /\ customRules[i].Class # predefinedClassifications[k]

\* the conditions the rule handed to AddCustomRule has to meet
Acceptable(r) ==
    /\ r.Name # ""
    /\ Len(r.Pattern) > 0
    /\ \A i \in 1..Len(r.Pattern) : r.Pattern[i] # "["
    /\ r.Class \in {EF, AF41, AF21, CS1, Other}
    /\ r.Priority >= 1

\* C26: AddCustomRule accepts a rule iff its name and pattern are non-empty,
\* the pattern compiles, the class is in the enum and the priority is >= 1;
\* a rejected rule returns an error and leaves the rule list, the table and
\* the default class, all that ClassifyProtocol reads, as they were.
C26_RuleValidation ==
    [][op'.name = "AddCustomRule" =>
          /\ (op'.ret = "nil") <=> Acceptable(op'.rule)
          /\ op'.ret \in {"nil", "err"}
          /\ op'.ret = "err" =>
                /\ customRules' = customRules
                /\ predefinedClassifications' = predefinedClassifications
                /\ defaultClass' = defaultClass]_vars

\* C26, its case: a rule whose only defect is its priority (0) was rejected
\* while the engine already holds a rule
C26_Witness ==
    /\ op.name = "AddCustomRule"
    /\ op.ret = "err"
    /\ op.rule.Priority = 0
    /\ Acceptable([op.rule EXCEPT !.Priority = 1])
    /\ Len(customRules) > 0

----------------------------------------------------------------------------
(* Application: end-to-end scenario A *)

\* C27 (as claimed): with sip -> EF predefined, the rule .*voice.* -> EF at
\* priority 1, default class CS1 and an empty cache, classifying sip,
\* voice-app, unknown-xyz gives sip EF/predefined, voice-app EF/custom_rule,
\* unknown-xyz CS1/default, and the AI manager is never called: no token is
\* taken, no provider is invoked.
C27_ScenarioA ==
    (/\ app.pc = "done"
     /\ app.coldCache
     /\ app.protocols = <<Sip, VoiceApp, UnknownXyz>>
     /\ Len(customRules) = 1)
        => /\ DOMAIN app.ret = {Sip, VoiceApp, UnknownXyz}
           /\ app.ret[Sip].Class = EF /\ app.ret[Sip].Source = "predefined"
           /\ app.ret[VoiceApp].Class = EF /\ app.ret[VoiceApp].Source = "custom_rule"
           /\ app.ret[UnknownXyz].Class = CS1 /\ app.ret[UnknownXyz].Source = "default"
           /\ mgr.pc = "idle"
           /\ rl.tokens = rl.burstSize

----------------------------------------------------------------------------
(* Cache store: the class enum *)

\* C28 (as claimed): the class of every classification the cache holds or
\* returns, entries reconstructed by Load included, is a member of the closed
\* enum EF, AF41, AF21, CS1, OTHER.
C28_ClassInEnum ==
    /\ \A k \in DOMAIN cacheEntries :
          cacheEntries[k].Classification.Class \in {EF, AF41, AF21, CS1, Other}
    /\ (op.name = "Get" /\ op.found) => op.value.Class \in {EF, AF41, AF21, CS1, Other}

----------------------------------------------------------------------------
(* Provider manager: batching and partial answers *)

\* the k-th of the consecutive batches of size bs of a list (k counts from 1)
NthBatch(protocols, bs, k) ==
    SubSeq(protocols, (k - 1) * bs + 1,
           IF k * bs > Len(protocols) THEN Len(protocols) ELSE k * bs)

\* how many batches of size bs a list of n protocols makes
NumBatches(n, bs) == (n + bs - 1) \div bs

\* C29: the protocols are handed to the providers in consecutive batches in
\* input order, each of batch_size protocols except possibly the last; one
\* token is taken for each batch before a provider is invoked for it; a call
\* that returns without error has gone through every batch; a cancelled wait
\* ends the call with the rate-limit error, and no provider is invoked once
\* the call has returned.
C29_BatchesInOrder ==
    [][/\ (op'.name = "Wait" /\ op'.ret = "nil") =>
              /\ mgr.pc = "wait"
              /\ rl'.tokens = rl.tokens - 1
              /\ mgr'.waits = mgr.waits + 1
       /\ op'.name = "provider" =>
              /\ mgr.pc = "batch"
              /\ mgr.waits \in 1..NumBatches(Len(mgr.protocols), mgr.batchSize)
              /\ mgr'.waits = mgr.waits
              /\ op'.batch = NthBatch(mgr.protocols, mgr.batchSize, mgr.waits)
              /\ Len(op'.batch) >= 1
              /\ mgr.waits < NumBatches(Len(mgr.protocols), mgr.batchSize)
                    => Len(op'.batch) = mgr.batchSize
       /\ (mgr.pc # "done" /\ mgr'.pc = "done" /\ mgr'.ret.err = "nil"
             /\ Len(mgr'.protocols) > 0) =>
              mgr'.waits = NumBatches(Len(mgr'.protocols), mgr'.batchSize)
       /\ (op'.name = "Wait" /\ op'.ret = "cancelled") =>
              /\ mgr'.pc = "done"
              /\ mgr'.ret.isNil /\ mgr'.ret.err = "rate_limit"
              /\ rl' = rl
       /\ (mgr.pc = "done" /\ mgr'.pc = "done") => op'.name # "provider"
      ]_vars

\* C29, its case: a call over three protocols with batch_size 2 has returned
\* without error after a full batch and a short one, two tokens taken
C29_Witness ==
    /\ mgr.pc = "done"
    /\ mgr.ret.err = "nil"
    /\ Len(mgr.protocols) = 3
    /\ mgr.batchSize = 2
    /\ mgr.waits = 2

\* C30: when a provider answers a batch, the entries the call holds are the
\* ones it held plus one per protocol of the answer, each with source ai, the
\* time of the answer and the class the provider gave; protocols the answer
\* leaves out get no entry, no entry has source default, and a call that
\* returns without error returns exactly those entries.
C30_PartialAnswer ==
    [][(op'.name = "provider" /\ op'.err = "nil" /\ mgr.pc = "batch") =>
          /\ DOMAIN mgr'.results = (DOMAIN mgr.results) \cup (DOMAIN op'.results)
          /\ \A k \in DOMAIN op'.results :
                /\ mgr'.results[k].Protocol = k
                /\ mgr'.results[k].Class = op'.results[k].Class
                /\ mgr'.results[k].Source = "ai"
                /\ mgr'.results[k].Timestamp = now \div TicksPerSecond
          /\ \A k \in DOMAIN mgr'.results : mgr'.results[k].Source # "default"
          /\ mgr'.pc = "done" =>
                (~mgr'.ret.isNil /\ mgr'.ret.err = "nil" /\ mgr'.ret.results = mgr'.results)
      ]_vars

\* C30, its case: a single batch of two protocols was answered for one of
\* them only, and the call returned that one entry
C30_Witness ==
    /\ mgr.pc = "done"
    /\ mgr.ret.err = "nil"
    /\ Len(mgr.protocols) = 2
    /\ mgr.batchSize = 2
    /\ mgr.protocols[1] # mgr.protocols[2]
    /\ DOMAIN mgr.ret.results = {mgr.protocols[1]}
    /\ mgr.ret.results[mgr.protocols[1]].Source = "ai"

----------------------------------------------------------------------------
(* Circuit breaker: state invariant *)

\* C38: in every state reachable through Call and Reset with max_failures
\* >= 1, the state is one of closed, open and half_open, the failure count
\* is not negative, and a closed breaker's failure count is below
\* max_failures
C38_StateInvariant ==
    /\ cb.maxFailures >= 1
    /\ cb.state \in CircuitStates
    /\ cb.failures >= 0
    /\ (cb.state = CircuitClosed => cb.failures < cb.maxFailures)

\* C38 witness: a closed breaker that has counted a failure, reached by a
\* failed Call
C38_Witness ==
    /\ op.name = "Call"
    /\ op.ret = "err"
    /\ cb.state = CircuitClosed
    /\ cb.failures >= 1

----------------------------------------------------------------------------
(* Cache: capacity *)

\* C36: for a cache created with max_size >= 1, after any sequence of Set
\* and Get calls at any clock readings (several calls on one clock reading
\* included) the number of stored entries never exceeds max_size, and the
\* eviction counter grows by exactly the number of entries a Set removes to
\* make room
C36_Capacity ==
    [][ /\ cacheCfg.maxSize >= 1
        /\ Cardinality(DOMAIN cacheEntries') <= cacheCfg.maxSize
        /\ cacheStats'.Evictions - cacheStats.Evictions =
              IF op'.name = "Set"
              THEN Cardinality((DOMAIN cacheEntries) \ (DOMAIN cacheEntries'))
              ELSE 0 ]_vars

----------------------------------------------------------------------------
(* Provider manager: what a call may return and whom it may call *)

\* C37: the keys of the map Manager.ClassifyProtocols returns are among the
\* protocol names it was given: a name that only the provider's answer
\* mentions is not in the result
C37_ResultKeysRequested ==
    (mgr.pc = "done" /\ ~mgr.ret.isNil) =>
        DOMAIN mgr.ret.results \subseteq Range(mgr.protocols)

\* C39: once the context is cancelled and a provider called for the batch
\* has failed, classifyBatch calls no further provider for that batch
C39_NoFallbackAfterCancel ==
    [][ (ctxDone /\ mgr.pc = "batch" /\ mgr.invoked # << >>) =>
            op'.name # "provider" ]_vars

----------------------------------------------------------------------------
(* Application: the classification pipeline *)

\* C34: a protocol joins the AI request list iff its cache lookup missed and
\* the rule engine gave it source default; a token is taken and a provider
\* is called only for a call whose AI list is not empty, and only the
\* protocols of that list are handed to a provider
C34_AIOnlyWhenUnmatched ==
    [][ /\ op'.name = "classifyProtocols.loop" =>
              LET protocol == app.protocols[app.n]
                  missed == ~GetOne(CacheState, protocol).found
                  asked == app'.needAIClassification # app.needAIClassification
              IN  /\ asked <=> (missed /\ ClassifyProtocol(protocol).Source = "default")
                  /\ asked => app'.needAIClassification =
                                 Append(app.needAIClassification, protocol)
        /\ op'.name \in {"Wait", "provider", "skip"} =>
              /\ app.pc = "ai"
              /\ app.needAIClassification # << >>
              /\ mgr.protocols = app.needAIClassification
        /\ op'.name = "provider" =>
              /\ Range(op'.batch) \subseteq Range(app.needAIClassification)
              /\ \A p \in Range(op'.batch) : ClassifyProtocol(p).Source = "default"
        /\ (op'.name = "classifyProtocols.return" /\ app.needAIClassification = << >>) =>
              /\ rl' = rl
              /\ mgr' = mgr ]_vars

\* C34 witness: a call of two or more protocols, each resolved by the cache
\* or by a rule, has returned, and the manager was never called
C34_Witness ==
    /\ app.pc = "done"
    /\ Len(app.protocols) >= 2
    /\ app.needAIClassification = << >>
    /\ mgr.pc = "idle"
    /\ rl.tokens = rl.burstSize
    /\ \E p \in Range(app.protocols) : app.ret[p].Source = "custom_rule"

\* the protocols of the finished call that neither the cache, nor a rule,
\* nor the AI answer resolved
Unresolved ==
    {p \in Range(app.needAIClassification) :
        mgr.ret.err # "nil" \/ p \notin DOMAIN mgr.ret.results}

\* C35: classifyProtocols returns without error, whatever the providers
\* did; its result has an entry for every input protocol, and a protocol
\* that cache, rules and AI left unresolved has the default class with
\* confidence 0.5 and source default
C35_AlwaysAnswers ==
    app.pc = "done" =>
        /\ op.name = "classifyProtocols.return" => op.err = "nil"
        /\ Range(app.protocols) \subseteq DOMAIN app.ret
        /\ \A p \in Unresolved :
              /\ app.ret[p].Class = defaultClass
              /\ app.ret[p].Confidence = ConfDefault
              /\ app.ret[p].Source = "default"

\* C35 witness: every provider failed for a call, and the call returned
\* with a default entry for the protocol it had asked about
C35_Witness ==
    /\ app.pc = "done"
    /\ op.name = "classifyProtocols.return"
    /\ mgr.ret.err = "all_providers_failed"
    /\ Unresolved # {}
    /\ Len(app.protocols) >= 2

----------------------------------------------------------------------------
(* Provider manager: termination *)

\* C40: with batch_size >= 1, a refill ticker that keeps ticking (or a
\* cancelled context) and provider calls that return, every
\* Manager.ClassifyProtocols call returns; it takes at most
\* ceil(n / batch_size) tokens and calls at most as many providers per
\* batch as the manager has
C40_Terminates ==
    /\ (mgr.pc \in {"wait", "batch"}) ~> (mgr.pc = "done")
    /\ [](mgr.waits <= NumBatches(Len(mgr.protocols), mgr.batchSize))
    /\ [](Len(mgr.invoked) <= Len(providers))

\* C40 witness: a call over three protocols in batches of two has returned
\* after two tokens, the second of them waited for
C40_Witness ==
    /\ mgr.pc = "done"
    /\ Len(mgr.protocols) = 3
    /\ mgr.batchSize = 2
    /\ mgr.waits = 2
    /\ refilled
    /\ mgr.ret.err = "nil"

----------------------------------------------------------------------------
(* DeepSeek provider: the retry loop *)

\* C31: one makeAPICall makes at most 3 attempts; it returns at the first
\* attempt that succeeds, starting no other; retry k (k = 1, 2) starts only
\* after a wait of min(2s * 2^(k-1), max_backoff); the failure of the
\* provider is reported only when the third attempt has failed, and it
\* carries that attempt's error
C31_BoundedRetry ==
    [][ /\ api'.tries <= 3
        /\ (op'.name = "singleAPICall" /\ op'.err = "nil") =>
              /\ api'.pc = "done"
              /\ ~api'.ret.isNil
              /\ api'.ret.err = "nil"
              /\ api'.tries = api.tries
        /\ api'.tries > api.tries /\ api.pc # "done" /\ api.pc # "idle" =>
              LET k == api.tries
                  wait == Min(2 * TicksPerSecond * 2^(k - 1), api.maxBackoff)
              IN  /\ api.pc = "backoff"
                  /\ api.delay = wait
                  /\ now - api.waitStart >= wait
                  /\ op'.waited = wait
        /\ (api'.pc = "done" /\ api.pc # "done"
               /\ api'.ret.err = "all_retry_attempts_failed") =>
              /\ api.tries = 3
              /\ api.pc = "attempt"
              /\ op'.name = "singleAPICall"
              /\ op'.err # "nil"
              /\ api'.ret.last = op'.err ]_vars

\* C31 witness: a call has failed after three attempts, the second retry
\* having waited the capped delay, and its error is that of the third
\* attempt, which differs from the error of the second
C31_Witness ==
    /\ api.pc = "done"
    /\ api.ret.err = "all_retry_attempts_failed"
    /\ api.tries = 3
    /\ api.delay = api.maxBackoff
    /\ api.delay < baseDelay * 2
    /\ api.delay > baseDelay
    /\ op.name = "singleAPICall"
    /\ api.ret.last = "api_error"

----------------------------------------------------------------------------
(* DeepSeek provider: response parsing *)

\* C33: parseResponse uses the JSON array when one can be decoded, else the
\* array between the math-display delimiters when one can be decoded, else
\* the line scan; an entry of the JSON strategies has the provider's
\* confidence or, without one, 0.8, an entry of the line scan has 0.7; the
\* call never returns an error, and when no strategy decodes anything and
\* no line names a protocol of the batch it returns an empty map
C33_ParseStrategies ==
    resp.pc = "parsed" =>
        LET json == parseJSONResponse(resp.content)
            regex == parseWithRegex(resp.content)
            named == {p \in Range(resp.protocols) :
                         \E i \in 1..Len(resp.content) : Mentions(resp.content[i], p)}
        IN  /\ resp.err = "nil"
            /\ resp.strategy = "json" <=> json.ok
            /\ resp.strategy = "regex" <=> (~json.ok /\ regex.ok)
            /\ resp.strategy = "manual" <=> (~json.ok /\ ~regex.ok)
            /\ json.ok => resp.results = mapToClassifications(json.classifications)
            /\ (~json.ok /\ regex.ok) =>
                  resp.results = mapToClassifications(regex.classifications)
            /\ resp.strategy \in {"json", "regex"} =>
                  \A k \in DOMAIN resp.results :
                      resp.results[k].Confidence = IF k = <<"a">> THEN 80 ELSE 90
            /\ resp.strategy = "manual" =>
                  /\ DOMAIN resp.results \subseteq named
                  /\ named # {} => resp.results # << >>
                  /\ \A k \in DOMAIN resp.results : resp.results[k].Confidence = 70
            /\ (~json.ok /\ ~regex.ok /\ named = {}) => resp.results = << >>

\* C33 witness: a content with an opening bracket and a math-display
\* delimiter that no strategy decodes and that names no protocol of the
\* batch has been parsed: the result is an empty map and no error
C33_Witness ==
    /\ resp.pc = "parsed"
    /\ op.name = "parseResponse"
    /\ op.err = "nil"
    /\ resp.strategy = "manual"
    /\ resp.results = << >>
    /\ \E i, j \in 1..Len(resp.content) :
          resp.content[i] = "[" /\ resp.content[j] = "$begin"
    /\ \E i \in 1..Len(resp.content) : resp.content[i] = "{b:BULK:90}"

=============================================================================
